---- MODULE Spec2Model ----
(***************************************************************************)
(* A model of boxt's editable canvas engine: the character grid with its   *)
(* undo/redo stacks (canvas.rs), the Edit vocabulary (edit.rs), the        *)
(* rectangle compiler and the boundary scan (rect.rs, canvas.rs) and the   *)
(* flat-text load/save pair (Canvas::from_str / Canvas::to_string).        *)
(*                                                                         *)
(* Coordinates are u16 in the source.  Every coordinate of this model is   *)
(* far below 2^16, so `start.x + i as u16` never wraps here; an index that *)
(* falls outside a Vec panics in the source and sets `panicked` here.      *)
(***************************************************************************)
EXTENDS Integers, Sequences, FiniteSets, TLC

VARIABLES
    canvas,     \* Canvas { current, undo, redo }                (canvas.rs:13-17)
    panicked,   \* TRUE once an index was out of a Vec's range   (canvas.rs:40, 262)
    ops,        \* the last (up to two) operations called, oldest first; an undo or
                \* redo that found its stack empty is "undo_none" or "redo_none"
    arg,        \* the edit sequence given to the last edit()/clear() call
    expected,   \* the rectangle drawn on the canvas             (canvas.rs:426)
    origin,     \* the point last given to rect_around
    found,      \* what that rect_around call returned
    doc,        \* the text of the document on disk              (tui.rs:53, 162)
    app,        \* App { cursor, mode, undo_cursor_pos, redo_cursor_pos,
                \*       last_edit_cursor_pos, exit }             (tui.rs:36-47)
    keys,       \* the number of key events handled so far      (tui.rs:88-90)
    anchors,    \* for every batch on the canvas stacks, the location its handler
                \* recorded for it (none for Canvas::clear), kept for the properties
    shape,      \* the Line or Text last drawn on the canvas      (line.rs:74, text.rs:42)
    frame,      \* the text drawn on the terminal since the last key event, if any
                \*                                                 (tui.rs:72, 359-360)
    binds       \* the key bindings built from the configuration, and the last
                \* key event looked up in them                     (binds.rs:8-23)

vars ==
    <<canvas, panicked, ops, arg, expected, origin, found, doc, app, keys, anchors, shape, frame, binds>>

----------------------------------------------------------------------------
(* Bounds of the model. *)

\* Largest coordinate at which a generic edit starts.
MaxCoord == 1
\* Length of the runs the generic edits write.
MaxRun == 2
\* Cap on the history: the number of batches on the undo and redo stacks plus
\* the number of edits they hold (the stacks are unbounded in the source).
MaxStored == 5
\* Width and height of the non-empty initial canvases.
InitSize == 2
\* Largest corner coordinate of the rectangle drawn for the boundary scan.
MaxRect == 3
\* Longest document loaded at start-up.
MaxDoc == 4
\* Longest document written by save.
MaxSave == 8
\* Most key events handled in one session.
MaxKeys == 5
\* Largest coordinate of the end points of a drawn line and of the start of a
\* drawn text.
MaxLine == 2
\* Longest text drawn.
MaxText == 3
\* Largest distance, per axis, of the vectors points are translated by.
MaxStep == 2
\* Most bindings a configuration declares.
MaxBinds == 2

----------------------------------------------------------------------------
(* Value types. *)

EMPTY == " "

Pt(x, y) == [x |-> x, y |-> y]

Right(start, chars) == [dir |-> "Right", start |-> start, chars |-> chars]

Down(start, chars) == [dir |-> "Down", start |-> start, chars |-> chars]

UndoRedo(edits, size_x, size_y) ==
    [edits |-> edits, size_x |-> size_x, size_y |-> size_y]

Max(a, b) == IF a > b THEN a ELSE b

Min(a, b) == IF a < b THEN a ELSE b

Last(s) == s[Len(s)]

Front(s) == SubSeq(s, 1, Len(s) - 1)

\* Vec::reverse
reverse_kept(s) == s

reverse(s) == [i \in 1..Len(s) |-> s[Len(s) + 1 - i]]

\* Vec::resize(n, v): truncate to n elements, or extend with copies of v.
Resize(s, n, v) == [i \in 1..n |-> IF i <= Len(s) THEN s[i] ELSE v]

\* vec![c; n]
Repeat(c, n) == [i \in 1..n |-> c]

----------------------------------------------------------------------------
(* Edit::bounds: the canvas size required to accomodate an edit. *)

bounds_no_row(e) ==
    IF e.chars = <<>> THEN Pt(0, 0)
    ELSE IF e.dir = "Right"
         THEN Pt(e.start.x + Len(e.chars), e.start.y)
         ELSE Pt(e.start.x + 1, e.start.y + Len(e.chars))

bounds(e) ==
    IF e.chars = <<>> THEN Pt(0, 0)
    ELSE IF e.dir = "Right"
         THEN Pt(e.start.x + Len(e.chars), e.start.y + 1)
         ELSE Pt(e.start.x + 1, e.start.y + Len(e.chars))

----------------------------------------------------------------------------
(* Canvas. *)

\* Canvas::new
new(size_x, size_y) ==
    [current |-> Repeat(Repeat(EMPTY, size_x), size_y), undo |-> <<>>, redo |-> <<>>]

\* Canvas::size, as (size_y, size_x).
size(c) ==
    [y |-> Len(c.current),
     x |-> IF Len(c.current) = 0 THEN 0 ELSE Len(c.current[1])]

resize_y(c, size_y, size_x) ==
    [c EXCEPT !.current = Resize(@, size_y, Repeat(EMPTY, size_x))]

\* A resize_x that resizes the first row only.
resize_first_row(c, sz) ==
    [c EXCEPT !.current = [r \in 1..Len(@) |-> IF r = 1 THEN Resize(@[r], sz, EMPTY) ELSE @[r]]]

resize_x(c, sz) ==
    [c EXCEPT !.current = [r \in 1..Len(@) |-> Resize(@[r], sz, EMPTY)]]

maybe_expand(c, b) ==
    LET s == size(c)
        new_size_y == Max(s.y, b.y)
        new_size_x == Max(s.x, b.x)
        c1 == IF new_size_y > s.y THEN resize_y(c, new_size_y, new_size_x) ELSE c
    IN  IF new_size_x > s.x THEN resize_x(c1, new_size_x) ELSE c1

\* Whether current[y][x] exists.
InGrid(c, x, y) == y < Len(c.current) /\ x < Len(c.current[y + 1])

\* Canvas::get; ok is FALSE where the source panics.
get(c, p) ==
    IF InGrid(c, p.x, p.y)
    THEN [char |-> c.current[p.y + 1][p.x + 1], ok |-> TRUE]
    ELSE [char |-> EMPTY, ok |-> FALSE]

\* Canvas::put: mem::replace, returning the character that was there.
put(c, x, y, ch) ==
    IF InGrid(c, x, y)
    THEN [canvas |-> [c EXCEPT !.current[y + 1][x + 1] = ch],
          old |-> c.current[y + 1][x + 1], ok |-> TRUE]
    ELSE [canvas |-> c, old |-> EMPTY, ok |-> FALSE]

\* The inner loop of apply_edits: write e.chars[i..] and collect the old characters.
RECURSIVE put_chars(_, _, _, _)
put_chars(c, e, i, old) ==
    IF i > Len(e.chars) THEN [canvas |-> c, old |-> old, ok |-> TRUE]
    ELSE LET r == IF e.dir = "Right"
                  THEN put(c, e.start.x + (i - 1), e.start.y, e.chars[i])
                  ELSE put(c, e.start.x, e.start.y + (i - 1), e.chars[i])
         IN  IF r.ok THEN put_chars(r.canvas, e, i + 1, Append(old, r.old))
             ELSE [canvas |-> c, old |-> old, ok |-> FALSE]

\* The outer loop of apply_edits over edits[k..], with the inverse edits so far.
RECURSIVE apply_loop(_, _, _, _, _)
apply_loop(c, edits, expand, k, undo) ==
    IF k > Len(edits) THEN [canvas |-> c, undo |-> undo, ok |-> TRUE]
    ELSE LET e == edits[k]
             c1 == IF expand THEN maybe_expand(c, bounds(e)) ELSE c
             r == put_chars(c1, e, 1, <<>>)
         IN  IF r.ok
             THEN apply_loop(r.canvas, edits, expand, k + 1,
                             Append(undo, [dir |-> e.dir, start |-> e.start, chars |-> r.old]))
             ELSE [canvas |-> r.canvas, undo |-> undo, ok |-> FALSE]

\* Canvas::apply_edits: the canvas after the edits and the batch that undoes them.
apply_edits(c, edits, expand) ==
    LET s == size(c)
        r == apply_loop(c, edits, expand, 1, <<>>)
    IN  [canvas |-> r.canvas,
         batch |-> UndoRedo(reverse(r.undo), s.x, s.y),
         ok |-> r.ok]

edit_keeps_redo(c, edits) ==
    LET r == apply_edits(c, edits, TRUE)
    IN  [canvas |-> [r.canvas EXCEPT !.undo = Append(@, r.batch)], ok |-> r.ok]

\* Canvas::edit
edit(c, edits) ==
    LET r == apply_edits(c, edits, TRUE)
    IN  [canvas |-> [r.canvas EXCEPT !.undo = Append(@, r.batch), !.redo = <<>>],
         ok |-> r.ok]

undo_shrinks_first(c) ==
    IF c.undo = <<>> THEN [canvas |-> c, ok |-> TRUE]
    ELSE LET u == Last(c.undo)
             c0 == resize_x(resize_y([c EXCEPT !.undo = Front(@)], u.size_y, u.size_x),
                            u.size_x)
             r == apply_edits(c0, u.edits, FALSE)
         IN  [canvas |-> [r.canvas EXCEPT !.redo = Append(@, r.batch)], ok |-> r.ok]

\* Canvas::undo
undo(c) ==
    IF c.undo = <<>> THEN [canvas |-> c, ok |-> TRUE]
    ELSE LET u == Last(c.undo)
             r == apply_edits([c EXCEPT !.undo = Front(@)], u.edits, FALSE)
             c1 == [r.canvas EXCEPT !.redo = Append(@, r.batch)]
         IN  IF r.ok
             THEN [canvas |-> resize_x(resize_y(c1, u.size_y, u.size_x), u.size_x),
                   ok |-> TRUE]
             ELSE [canvas |-> r.canvas, ok |-> FALSE]

redo_without_resize(c) ==
    IF c.redo = <<>> THEN [canvas |-> c, ok |-> TRUE]
    ELSE LET u == Last(c.redo)
             r == apply_edits([c EXCEPT !.redo = Front(@)], u.edits, FALSE)
         IN  IF r.ok
             THEN [canvas |-> [r.canvas EXCEPT !.undo = Append(@, r.batch)], ok |-> TRUE]
             ELSE [canvas |-> r.canvas, ok |-> FALSE]

redo_on_empty_pushes(c) ==
    LET u == IF c.redo = <<>> THEN UndoRedo(<<>>, size(c).x, size(c).y) ELSE Last(c.redo)
        c0 == resize_x(resize_y([c EXCEPT !.redo = IF @ = <<>> THEN @ ELSE Front(@)],
                                u.size_y, u.size_x), u.size_x)
        r == apply_edits(c0, u.edits, FALSE)
    IN  IF r.ok
        THEN [canvas |-> [r.canvas EXCEPT !.undo = Append(@, r.batch)], ok |-> TRUE]
        ELSE [canvas |-> r.canvas, ok |-> FALSE]

\* Canvas::redo
redo(c) ==
    IF c.redo = <<>> THEN [canvas |-> c, ok |-> TRUE]
    ELSE LET u == Last(c.redo)
             c0 == resize_x(resize_y([c EXCEPT !.redo = Front(@)], u.size_y, u.size_x),
                            u.size_x)
             r == apply_edits(c0, u.edits, FALSE)
         IN  IF r.ok
             THEN [canvas |-> [r.canvas EXCEPT !.undo = Append(@, r.batch)], ok |-> TRUE]
             ELSE [canvas |-> r.canvas, ok |-> FALSE]

\* Canvas::clear
clear(c, point) == edit(c, <<Right(point, <<EMPTY>>)>>)

----------------------------------------------------------------------------
(* UVec::translated and Rect. *)

U16_MAX == 65535

\* u16::wrapping_add_signed
wrapping_add_signed(a, d) == (a + d) % (U16_MAX + 1)

\* u16::saturating_add_signed
saturating_add_signed(a, d) == Max(0, Min(U16_MAX, a + d))

\* UVec::translated
translated(p, d) == Pt(saturating_add_signed(p.x, d.x), saturating_add_signed(p.y, d.y))

IVec_DOWN == [x |-> 0, y |-> 1]

TOP_LEFT == "+"
TOP_RIGHT == "+"
HORIZONTAL == "-"
VERTICAL == "|"
BOTTOM_LEFT == "+"
BOTTOM_RIGHT == "+"

\* Rect::new
Rect(x1, y1, x2, y2) == [top_left |-> Pt(x1, y1), bottom_right |-> Pt(x2, y2)]

\* Rect::edits without the corner swap.
edits_corners_as_given(r) ==
    LET x1 == r.top_left.x
        x2 == r.bottom_right.x
        y1 == r.top_left.y
        y2 == r.bottom_right.y
        w == x2 - x1
        h == y2 - y1
        top == [i \in 1..(w + 1) |->
                   IF i = w + 1 THEN TOP_RIGHT ELSE IF i = 1 THEN TOP_LEFT ELSE HORIZONTAL]
        bottom == [i \in 1..(w + 1) |->
                      IF i = w + 1 THEN BOTTOM_RIGHT ELSE IF i = 1 THEN BOTTOM_LEFT ELSE HORIZONTAL]
        side == Repeat(VERTICAL, Max(h - 1, 0))
    IN  <<Right(Pt(x1, y1), top),
          Right(Pt(x1, y2), bottom),
          Down(translated(Pt(x1, y1), IVec_DOWN), side),
          Down(translated(Pt(x2, y1), IVec_DOWN), side)>>

\* Rect::edits with sides that run from the top row to the bottom row.
edits_sides_cover_corners(r) ==
    LET x1 == IF r.top_left.x < r.bottom_right.x THEN r.top_left.x ELSE r.bottom_right.x
        x2 == IF r.top_left.x < r.bottom_right.x THEN r.bottom_right.x ELSE r.top_left.x
        y1 == IF r.top_left.y < r.bottom_right.y THEN r.top_left.y ELSE r.bottom_right.y
        y2 == IF r.top_left.y < r.bottom_right.y THEN r.bottom_right.y ELSE r.top_left.y
        w == x2 - x1
        h == y2 - y1
        top == [i \in 1..(w + 1) |->
                   IF i = w + 1 THEN TOP_RIGHT ELSE IF i = 1 THEN TOP_LEFT ELSE HORIZONTAL]
        bottom == [i \in 1..(w + 1) |->
                      IF i = w + 1 THEN BOTTOM_RIGHT ELSE IF i = 1 THEN BOTTOM_LEFT ELSE HORIZONTAL]
        side == Repeat(VERTICAL, h + 1)
    IN  <<Right(Pt(x1, y1), top),
          Right(Pt(x1, y2), bottom),
          Down(Pt(x1, y1), side),
          Down(Pt(x2, y1), side)>>

\* Rect::edits with sides of h cells instead of h - 1.
edits_side_full_height(r) ==
    LET x1 == IF r.top_left.x < r.bottom_right.x THEN r.top_left.x ELSE r.bottom_right.x
        x2 == IF r.top_left.x < r.bottom_right.x THEN r.bottom_right.x ELSE r.top_left.x
        y1 == IF r.top_left.y < r.bottom_right.y THEN r.top_left.y ELSE r.bottom_right.y
        y2 == IF r.top_left.y < r.bottom_right.y THEN r.bottom_right.y ELSE r.top_left.y
        w == x2 - x1
        h == y2 - y1
        top == [i \in 1..(w + 1) |->
                   IF i = w + 1 THEN TOP_RIGHT ELSE IF i = 1 THEN TOP_LEFT ELSE HORIZONTAL]
        bottom == [i \in 1..(w + 1) |->
                      IF i = w + 1 THEN BOTTOM_RIGHT ELSE IF i = 1 THEN BOTTOM_LEFT ELSE HORIZONTAL]
        side == Repeat(VERTICAL, h)
    IN  <<Right(Pt(x1, y1), top),
          Right(Pt(x1, y2), bottom),
          Down(translated(Pt(x1, y1), IVec_DOWN), side),
          Down(translated(Pt(x2, y1), IVec_DOWN), side)>>

\* Rect::edits
rect_edits(r) ==
    LET x1 == IF r.top_left.x < r.bottom_right.x THEN r.top_left.x ELSE r.bottom_right.x
        x2 == IF r.top_left.x < r.bottom_right.x THEN r.bottom_right.x ELSE r.top_left.x
        y1 == IF r.top_left.y < r.bottom_right.y THEN r.top_left.y ELSE r.bottom_right.y
        y2 == IF r.top_left.y < r.bottom_right.y THEN r.bottom_right.y ELSE r.top_left.y
        w == x2 - x1
        h == y2 - y1
        top == [i \in 1..(w + 1) |->
                   IF i = w + 1 THEN TOP_RIGHT ELSE IF i = 1 THEN TOP_LEFT ELSE HORIZONTAL]
        bottom == [i \in 1..(w + 1) |->
                      IF i = w + 1 THEN BOTTOM_RIGHT ELSE IF i = 1 THEN BOTTOM_LEFT ELSE HORIZONTAL]
        side == Repeat(VERTICAL, Max(h - 1, 0))
    IN  <<Right(Pt(x1, y1), top),
          Right(Pt(x1, y2), bottom),
          Down(translated(Pt(x1, y1), IVec_DOWN), side),
          Down(translated(Pt(x2, y1), IVec_DOWN), side)>>

----------------------------------------------------------------------------
(* The boundary scan. *)

\* `size as u16`
AsU16(n) == n % (U16_MAX + 1)

\* Canvas::find: the first point from `point` on, in steps of (dx, dy), that
\* holds one of the characters cs.
RECURSIVE find(_, _, _, _, _)
find(c, point, dx, dy, cs) ==
    IF ~(point.x < AsU16(size(c).x) /\ point.y < AsU16(size(c).y))
    THEN [some |-> FALSE, point |-> point, ok |-> TRUE]
    ELSE LET g == get(c, point)
         IN  IF ~g.ok THEN [some |-> FALSE, point |-> point, ok |-> FALSE]
             ELSE IF g.char \in cs THEN [some |-> TRUE, point |-> point, ok |-> TRUE]
             ELSE IF point.x + dx < 0 \/ point.x + dx > U16_MAX
                     \/ point.y + dy < 0 \/ point.y + dy > U16_MAX
                  THEN [some |-> FALSE, point |-> point, ok |-> TRUE]
                  ELSE find(c, Pt(point.x + dx, point.y + dy), dx, dy, cs)

NoMatch(ok) ==
    [some |-> FALSE, top_left |-> Pt(0, 0), bottom_right |-> Pt(0, 0), ok |-> ok]

\* Canvas::rect_around
rect_around(c, o) ==
    LET horizontal == {HORIZONTAL, TOP_LEFT, TOP_RIGHT, BOTTOM_LEFT, BOTTOM_RIGHT}
        vertical == {VERTICAL, TOP_LEFT, TOP_RIGHT, BOTTOM_LEFT, BOTTOM_RIGHT}
        top == find(c, o, 0, -1, horizontal)
        bottom == find(c, o, 0, 1, horizontal)
        left == find(c, o, -1, 0, vertical)
        right == find(c, o, 1, 0, vertical)
        top_left == Pt(left.point.x, top.point.y)
        top_right == Pt(right.point.x, top.point.y)
        bottom_left == Pt(left.point.x, bottom.point.y)
        bottom_right == Pt(right.point.x, bottom.point.y)
    IN  IF ~top.some THEN NoMatch(top.ok)
        ELSE IF ~bottom.some THEN NoMatch(bottom.ok)
        ELSE IF ~left.some THEN NoMatch(left.ok)
        ELSE IF ~right.some THEN NoMatch(right.ok)
        ELSE IF ~get(c, top_left).ok THEN NoMatch(FALSE)
        ELSE IF get(c, top_left).char # TOP_LEFT THEN NoMatch(TRUE)
        ELSE IF ~get(c, top_right).ok THEN NoMatch(FALSE)
        ELSE IF get(c, top_right).char # TOP_RIGHT THEN NoMatch(TRUE)
        ELSE IF ~get(c, bottom_left).ok THEN NoMatch(FALSE)
        ELSE IF get(c, bottom_left).char # BOTTOM_LEFT THEN NoMatch(TRUE)
        ELSE IF ~get(c, bottom_right).ok THEN NoMatch(FALSE)
        ELSE IF get(c, bottom_right).char # BOTTOM_RIGHT THEN NoMatch(TRUE)
        ELSE [some |-> TRUE, top_left |-> top_left, bottom_right |-> bottom_right,
              ok |-> TRUE]

----------------------------------------------------------------------------
(* Load and save. *)

NEWLINE == "\n"

\* str::lines over a text without carriage returns: the pieces between line
\* feeds, without an empty piece after a final line feed.
RECURSIVE lines(_)
lines(s) ==
    IF s = <<>> THEN <<>>
    ELSE IF \A i \in 1..Len(s) : s[i] # NEWLINE THEN <<s>>
    ELSE LET i == CHOOSE i \in 1..Len(s) :
                      s[i] = NEWLINE /\ \A j \in 1..(i - 1) : s[j] # NEWLINE
         IN  <<SubSeq(s, 1, i - 1)>> \o lines(SubSeq(s, i + 1, Len(s)))

\* Iterator::sum over the lengths of the lines.
RECURSIVE sum_len(_)
sum_len(ls) == IF ls = <<>> THEN 0 ELSE Len(Head(ls)) + sum_len(Tail(ls))

\* Canvas::from_str
from_str(s) ==
    LET w == sum_len(lines(s))
    IN  [current |-> [i \in 1..Len(lines(s)) |-> Resize(lines(s)[i], w, EMPTY)],
         undo |-> <<>>, redo |-> <<>>]

\* [String]::join("\n")
RECURSIVE join(_)
join(rows) ==
    IF rows = <<>> THEN <<>>
    ELSE IF Len(rows) = 1 THEN rows[1]
    ELSE rows[1] \o <<NEWLINE>> \o join(Tail(rows))

\* Canvas::to_string
to_string(c) == join(c.current)

----------------------------------------------------------------------------
(* Line, Text and the erase transform. *)

Line_HORIZONTAL == "-"
Line_VERTICAL == "|"
Line_CORNER == "+"

\* Line::new
Line_new(start, end) == [start |-> start, end |-> end, mirror |-> FALSE]

\* Line::line: len + 1 glyphs, the first and the last a corner.
Line_line(char, len) ==
    [i \in 1..(len + 1) |-> IF i = 1 \/ i = len + 1 THEN Line_CORNER ELSE char]

\* u16::abs_diff
abs_diff(a, b) == IF a < b THEN b - a ELSE a - b

\* Line::vert
vert(a, b) == Down(Pt(a.x, Min(a.y, b.y)), Line_line(Line_VERTICAL, abs_diff(b.y, a.y)))

\* Line::horiz
horiz(a, b) == Right(Pt(Min(a.x, b.x), a.y), Line_line(Line_HORIZONTAL, abs_diff(b.x, a.x)))

\* Line::edits that ignores the mirror flag, the vertical segment always first.
edits_vertical_first(l) ==
    <<vert(l.start, l.end), horiz(Pt(l.start.x, l.end.y), l.end)>>

\* Line::edits that ignores the mirror flag, the horizontal segment always first.
edits_horizontal_first(l) ==
    <<horiz(l.start, l.end), vert(Pt(l.end.x, l.start.y), l.end)>>

\* Line::edits
line_edits(l) ==
    IF l.mirror
    THEN <<horiz(l.start, l.end), vert(Pt(l.end.x, l.start.y), l.end)>>
    ELSE <<vert(l.start, l.end), horiz(Pt(l.start.x, l.end.y), l.end)>>

\* Text { start, text }
Text(start, text) == [start |-> start, text |-> text]

\* Text::edits that puts every line on the row of start.
edits_on_start_row(t) ==
    [i \in 1..Len(lines(t.text)) |-> Right(Pt(t.start.x, t.start.y), lines(t.text)[i])]

\* Text::edits
text_edits(t) ==
    [i \in 1..Len(lines(t.text)) |->
        Right(Pt(t.start.x, t.start.y + (i - 1)), lines(t.text)[i])]

\* A translation that moves the first corner and keeps the rectangle's size.
translated_keeping_size(r, d) ==
    [top_left |-> translated(r.top_left, d),
     bottom_right |-> Pt(translated(r.top_left, d).x + (r.bottom_right.x - r.top_left.x),
                         translated(r.top_left, d).y + (r.bottom_right.y - r.top_left.y))]

\* Rect::translated
rect_translated(r, d) ==
    [top_left |-> translated(r.top_left, d), bottom_right |-> translated(r.bottom_right, d)]

\* Edit::erase: the same edit with every character replaced by a blank.
erase(e) == [e EXCEPT !.chars = [i \in 1..Len(e.chars) |-> EMPTY]]

\* Iterator::map over a Vec<Edit>
Map_erase(edits) == [i \in 1..Len(edits) |-> erase(edits[i])]

----------------------------------------------------------------------------
(* The interaction state machine: Mode and App. *)

Mode_Normal == [kind |-> "Normal"]
Mode_Rect(r) == [kind |-> "Rect", rect |-> r]
Mode_Line(l) == [kind |-> "Line", line |-> l]
Mode_Text(t) == [kind |-> "Text", text |-> t]
Mode_SelectRect(cursor_start, original, current) ==
    [kind |-> "SelectRect", cursor_start |-> cursor_start,
     original |-> original, current |-> current]

\* App::default
App_default ==
    [cursor |-> Pt(0, 0), mode |-> Mode_Normal, undo_cursor_pos |-> <<>>,
     redo_cursor_pos |-> <<>>, last_edit_cursor_pos |-> Pt(0, 0), exit |-> FALSE]

NoAnchors == [undo |-> <<>>, redo |-> <<>>]

\* What a handler returns: the App fields, the canvas, and whether it returned
\* (FALSE: it panicked).
Handled(a, c, ok) == [app |-> a, canvas |-> c, ok |-> ok]

\* A move_cursor that moves the cursor and leaves the shape of the mode as
\* it was.
move_cursor_only(a, x, y) ==
    [a EXCEPT !.cursor = Pt(saturating_add_signed(a.cursor.x, x),
                            saturating_add_signed(a.cursor.y, y))]

\* App::move_cursor
move_cursor(a, x, y) ==
    LET cur == Pt(saturating_add_signed(a.cursor.x, x), saturating_add_signed(a.cursor.y, y))
        m == a.mode
    IN  [a EXCEPT
            !.cursor = cur,
            !.mode = IF m.kind = "Rect" THEN Mode_Rect([m.rect EXCEPT !.bottom_right = cur])
                     ELSE IF m.kind = "Line" THEN Mode_Line([m.line EXCEPT !.end = cur])
                     ELSE IF m.kind = "SelectRect"
                     THEN [m EXCEPT !.current = rect_translated(m.current, [x |-> x, y |-> y])]
                     ELSE m]

\* The commit sequence of the handlers: canvas.edit(edits), push the position on
\* undo_cursor_pos, clear redo_cursor_pos, note the cursor, set the mode.
commit(a, c, edits, pos, mode) ==
    LET r == edit(c, edits)
    IN  Handled([a EXCEPT !.undo_cursor_pos = Append(@, pos),
                          !.redo_cursor_pos = <<>>,
                          !.last_edit_cursor_pos = a.cursor,
                          !.mode = mode],
                r.canvas, r.ok)

\* Action::Quit
action_quit(a, c) == Handled([a EXCEPT !.exit = TRUE], c, TRUE)

\* Action::MoveCursor
action_move_cursor(a, c, x, y) == Handled(move_cursor(a, x, y), c, TRUE)

\* An EnterMode that first writes the rectangle in progress to the canvas.
enter_mode_commits(a, c, m) ==
    LET c1 == IF a.mode.kind = "Rect" THEN edit(c, rect_edits(a.mode.rect)).canvas ELSE c
    IN  IF m = "Rect"
        THEN Handled(move_cursor([a EXCEPT !.mode = Mode_Rect([top_left |-> a.cursor,
                                                               bottom_right |-> a.cursor])],
                                 1, 1),
                     c1, TRUE)
        ELSE IF m = "Line"
        THEN Handled([a EXCEPT !.mode = Mode_Line(Line_new(a.cursor, a.cursor))], c1, TRUE)
        ELSE Handled([a EXCEPT !.mode = Mode_Text(Text(a.cursor, <<>>))], c1, TRUE)

\* Action::EnterMode
action_enter_mode(a, c, m) ==
    IF m = "Rect"
    THEN Handled(move_cursor([a EXCEPT !.mode = Mode_Rect([top_left |-> a.cursor,
                                                           bottom_right |-> a.cursor])],
                             1, 1),
                 c, TRUE)
    ELSE IF m = "Line"
    THEN Handled([a EXCEPT !.mode = Mode_Line(Line_new(a.cursor, a.cursor))], c, TRUE)
    ELSE Handled([a EXCEPT !.mode = Mode_Text(Text(a.cursor, <<>>))], c, TRUE)

add_point_keeps_start(a, c) ==
    IF a.mode.kind = "Line"
    THEN LET l == a.mode.line
         IN  commit(a, c, line_edits(l), l.start, Mode_Line(Line_new(l.start, l.end)))
    ELSE Handled(a, c, TRUE)

\* Action::LineAddPoint
action_line_add_point(a, c) ==
    IF a.mode.kind = "Line"
    THEN LET l == a.mode.line
         IN  commit(a, c, line_edits(l), l.start, Mode_Line(Line_new(l.end, l.end)))
    ELSE Handled(a, c, TRUE)

\* Action::LineMirror
action_line_mirror(a, c) ==
    IF a.mode.kind = "Line"
    THEN Handled([a EXCEPT !.mode = Mode_Line([a.mode.line EXCEPT !.mirror = ~@])], c, TRUE)
    ELSE Handled(a, c, TRUE)

exit_mode_erases_last(a, c) ==
    LET m == a.mode
    IN  IF m.kind = "Rect" THEN commit(a, c, rect_edits(m.rect), m.rect.top_left, Mode_Normal)
        ELSE IF m.kind = "Line" THEN commit(a, c, line_edits(m.line), m.line.start, Mode_Normal)
        ELSE IF m.kind = "Text" THEN commit(a, c, text_edits(m.text), m.text.start, Mode_Normal)
        ELSE IF m.kind = "SelectRect"
        THEN commit(a, c, rect_edits(m.current) \o Map_erase(rect_edits(m.original)),
                    m.cursor_start, Mode_Normal)
        ELSE Handled(a, c, TRUE)

exit_mode_records_cursor(a, c) ==
    LET m == a.mode
    IN  IF m.kind = "Rect" THEN commit(a, c, rect_edits(m.rect), a.cursor, Mode_Normal)
        ELSE IF m.kind = "Line" THEN commit(a, c, line_edits(m.line), a.cursor, Mode_Normal)
        ELSE IF m.kind = "Text" THEN commit(a, c, text_edits(m.text), a.cursor, Mode_Normal)
        ELSE IF m.kind = "SelectRect"
        THEN commit(a, c, Map_erase(rect_edits(m.original)) \o rect_edits(m.current),
                    m.cursor_start, Mode_Normal)
        ELSE Handled(a, c, TRUE)

\* Action::ExitMode
action_exit_mode(a, c) ==
    LET m == a.mode
    IN  IF m.kind = "Rect" THEN commit(a, c, rect_edits(m.rect), m.rect.top_left, Mode_Normal)
        ELSE IF m.kind = "Line" THEN commit(a, c, line_edits(m.line), m.line.start, Mode_Normal)
        ELSE IF m.kind = "Text" THEN commit(a, c, text_edits(m.text), m.text.start, Mode_Normal)
        ELSE IF m.kind = "SelectRect"
        THEN commit(a, c, Map_erase(rect_edits(m.original)) \o rect_edits(m.current),
                    m.cursor_start, Mode_Normal)
        ELSE Handled(a, c, TRUE)

\* Action::TextAddLine: todo!()
action_text_add_line(a, c) == Handled(a, c, FALSE)

delete_erases_dragged(a, c) ==
    LET m == a.mode
    IN  IF m.kind = "Normal"
        THEN LET r == clear(c, a.cursor) IN Handled(a, r.canvas, r.ok)
        ELSE IF m.kind = "SelectRect"
        THEN commit(a, c, Map_erase(rect_edits(m.current)), m.cursor_start, Mode_Normal)
        ELSE Handled(a, c, TRUE)

\* Action::Delete
action_delete(a, c) ==
    LET m == a.mode
    IN  IF m.kind = "Normal"
        THEN LET r == clear(c, a.cursor) IN Handled(a, r.canvas, r.ok)
        ELSE IF m.kind = "SelectRect"
        THEN commit(a, c, Map_erase(rect_edits(m.original)), m.cursor_start, Mode_Normal)
        ELSE Handled(a, c, TRUE)

\* Action::Undo
action_undo(a, c) ==
    LET r == undo(c)
    IN  IF a.undo_cursor_pos = <<>> THEN Handled(a, r.canvas, r.ok)
        ELSE Handled([a EXCEPT !.undo_cursor_pos = Front(@),
                               !.redo_cursor_pos = Append(@, Last(a.undo_cursor_pos)),
                               !.cursor = Last(a.undo_cursor_pos)],
                     r.canvas, r.ok)

\* Action::Redo
action_redo(a, c) ==
    LET r == redo(c)
    IN  IF a.redo_cursor_pos = <<>> THEN Handled(a, r.canvas, r.ok)
        ELSE Handled([a EXCEPT !.redo_cursor_pos = Front(@),
                               !.undo_cursor_pos = Append(@, a.cursor),
                               !.cursor = Last(a.redo_cursor_pos)],
                     r.canvas, r.ok)

\* A select-rect that drops the shape in progress when nothing matches.
select_rect_or_normal(a, c) ==
    LET r == rect_around(c, a.cursor)
    IN  IF r.some
        THEN Handled([a EXCEPT !.mode =
                         Mode_SelectRect(a.cursor,
                                         [top_left |-> r.top_left, bottom_right |-> r.bottom_right],
                                         [top_left |-> r.top_left, bottom_right |-> r.bottom_right])],
                     c, r.ok)
        ELSE Handled([a EXCEPT !.mode = Mode_Normal], c, r.ok)

\* Action::SelectRect
action_select_rect(a, c) ==
    LET r == rect_around(c, a.cursor)
    IN  IF r.some
        THEN Handled([a EXCEPT !.mode =
                         Mode_SelectRect(a.cursor,
                                         [top_left |-> r.top_left, bottom_right |-> r.bottom_right],
                                         [top_left |-> r.top_left, bottom_right |-> r.bottom_right])],
                     c, r.ok)
        ELSE Handled(a, c, r.ok)

\* Text mode, KeyCode::Backspace
key_backspace(a, c) ==
    LET t == a.mode.text
    IN  IF t.text = <<>> THEN Handled(a, c, TRUE)
        ELSE Handled(move_cursor([a EXCEPT !.mode = Mode_Text(Text(t.start, Front(t.text)))],
                                 -1, 0),
                     c, TRUE)

\* Text mode, KeyCode::Char(c) without modifiers
key_char(a, c, ch) ==
    LET t == a.mode.text
    IN  Handled(move_cursor([a EXCEPT !.mode = Mode_Text(Text(t.start, Append(t.text, ch)))],
                            1, 0),
                c, TRUE)

\* Text mode, KeyCode::Enter without modifiers
key_enter(a, c) ==
    LET t == a.mode.text
        len == IF lines(t.text) = <<>> THEN 0 ELSE Len(Last(lines(t.text)))
    IN  Handled(move_cursor([a EXCEPT !.mode = Mode_Text(Text(t.start, Append(t.text, NEWLINE)))],
                            -len, 1),
                c, TRUE)

\* The batches of edits render passes to canvas.edit for the mode, in order.
preview_edits(m) ==
    IF m.kind = "Rect" THEN <<rect_edits(m.rect)>>
    ELSE IF m.kind = "Line" THEN <<line_edits(m.line)>>
    ELSE IF m.kind = "Text" THEN <<text_edits(m.text)>>
    ELSE IF m.kind = "SelectRect"
    THEN <<Map_erase(rect_edits(m.original)), rect_edits(m.current)>>
    ELSE <<>>

\* canvas.edit of each batch in turn, up to the first that panics.
RECURSIVE edit_each(_, _)
edit_each(c, batches) ==
    IF batches = <<>> THEN [canvas |-> c, ok |-> TRUE]
    ELSE LET r == edit(c, Head(batches))
         IN  IF r.ok THEN edit_each(r.canvas, Tail(batches)) ELSE r

\* The canvas with the shape in progress drawn on it: the `canvas` local of
\* render after its match on the mode.  The batches are bound once, as the
\* drawn canvas is in render below.
preview(a, c) ==
    CHOOSE r \in {edit_each(c, batches) : batches \in {preview_edits(a.mode)}} : TRUE

\* render that draws the shape on the canvas of the App instead of a clone.
render_without_clone(a, c) ==
    CHOOSE r \in {[text |-> to_string(p.canvas), canvas |-> p.canvas, ok |-> p.ok] :
                      p \in {preview(a, c)}} : TRUE

\* impl Widget for &App, render: the text it draws and the canvas of the App
\* after it; the preview is drawn on a clone.
render(a, c) ==
    CHOOSE r \in {[text |-> to_string(p.canvas), canvas |-> c, ok |-> p.ok] :
                      p \in {preview(a, c)}} : TRUE

----------------------------------------------------------------------------
(* Key bindings: binds.rs.  A key specification is a string, here the       *)
(* sequence of its characters.                                              *)

SHIFT == "SHIFT"
CONTROL == "CONTROL"
ALT == "ALT"

\* KeyCode::Char(c), KeyCode::F(n) and the KeyCode variants without a field.
Char(c) == [kind |-> "Char", char |-> c]

F(n) == [kind |-> "F", n |-> n]

Key(name) == [kind |-> name]

\* KeyEvent { code, modifiers, kind: KeyEventKind::Press, state: empty }
KeyEvent(code, modifiers) == [code |-> code, modifiers |-> modifiers]

LowerCase == <<"a", "b", "c", "d", "e", "f", "g", "h", "i", "j", "k", "l", "m", "n", "o", "p", "q", "r", "s", "t", "u", "v", "w", "x", "y", "z">>

UpperCase == <<"A", "B", "C", "D", "E", "F", "G", "H", "I", "J", "K", "L", "M", "N", "O", "P", "Q", "R", "S", "T", "U", "V", "W", "X", "Y", "Z">>

\* char::is_ascii_uppercase
is_ascii_uppercase(c) == \E i \in 1..Len(UpperCase) : UpperCase[i] = c

\* char::to_ascii_uppercase
to_ascii_uppercase(c) ==
    IF \E i \in 1..Len(LowerCase) : LowerCase[i] = c
    THEN UpperCase[CHOOSE i \in 1..Len(LowerCase) : LowerCase[i] = c]
    ELSE c

\* The form in which KeyEvent's Eq and Hash, which the HashMap of Binds uses,
\* compare a key event: SHIFT is set for an uppercase character, and a
\* character with SHIFT is uppercase.
normalize_case(ev) ==
    IF ev.code.kind # "Char" THEN ev
    ELSE IF is_ascii_uppercase(ev.code.char)
         THEN [ev EXCEPT !.modifiers = @ \cup {SHIFT}]
         ELSE IF SHIFT \in ev.modifiers
              THEN [ev EXCEPT !.code = Char(to_ascii_uppercase(ev.code.char))]
              ELSE ev

\* impl PartialEq for KeyEvent
KeyEq(a, b) == normalize_case(a) = normalize_case(b)

\* str::split('-')
RECURSIVE split(_)
split(s) ==
    IF \A i \in 1..Len(s) : s[i] # "-" THEN <<s>>
    ELSE LET i == CHOOSE i \in 1..Len(s) : s[i] = "-" /\ \A j \in 1..(i - 1) : s[j] # "-"
         IN  <<SubSeq(s, 1, i - 1)>> \o split(SubSeq(s, i + 1, Len(s)))

Digits == <<"0", "1", "2", "3", "4", "5", "6", "7", "8", "9">>

U8_MAX == 255

\* str::parse::<u8>: decimal digits after an optional '+', at most 255.
RECURSIVE digits_value(_)
digits_value(s) ==
    IF s = <<>> THEN 0
    ELSE 10 * digits_value(Front(s)) + (CHOOSE d \in 0..9 : Digits[d + 1] = Last(s))

parse(s) ==
    LET t == IF s # <<>> /\ s[1] = "+" THEN Tail(s) ELSE s
    IN  IF t = <<>> \/ \E i \in 1..Len(t) : \A d \in 1..10 : Digits[d] # t[i]
        THEN [ok |-> FALSE, n |-> 0]
        ELSE IF digits_value(t) > U8_MAX THEN [ok |-> FALSE, n |-> 0]
        ELSE [ok |-> TRUE, n |-> digits_value(t)]

\* The named keys of map_key.
NamedKeys ==
    {[name |-> <<"b", "a", "c", "k", "s", "p", "a", "c", "e">>, code |-> "Backspace"],
     [name |-> <<"e", "n", "t", "e", "r">>, code |-> "Enter"],
     [name |-> <<"l", "e", "f", "t">>, code |-> "Left"],
     [name |-> <<"r", "i", "g", "h", "t">>, code |-> "Right"],
     [name |-> <<"u", "p">>, code |-> "Up"],
     [name |-> <<"d", "o", "w", "n">>, code |-> "Down"],
     [name |-> <<"h", "o", "m", "e">>, code |-> "Home"],
     [name |-> <<"e", "n", "d">>, code |-> "End"],
     [name |-> <<"p", "a", "g", "e", "u", "p">>, code |-> "PageUp"],
     [name |-> <<"p", "a", "g", "e", "d", "o", "w", "n">>, code |-> "PageDown"],
     [name |-> <<"t", "a", "b">>, code |-> "Tab"],
     [name |-> <<"b", "a", "c", "k", "t", "a", "b">>, code |-> "BackTab"],
     [name |-> <<"d", "e", "l", "e", "t", "e">>, code |-> "Delete"],
     [name |-> <<"i", "n", "s", "e", "r", "t">>, code |-> "Insert"],
     [name |-> <<"n", "u", "l", "l">>, code |-> "Null"],
     [name |-> <<"e", "s", "c">>, code |-> "Esc"],
     [name |-> <<"c", "a", "p", "s", "l", "o", "c", "k">>, code |-> "CapsLock"],
     [name |-> <<"s", "c", "r", "o", "l", "l", "l", "o", "c", "k">>, code |-> "ScrollLock"],
     [name |-> <<"n", "u", "m", "l", "o", "c", "k">>, code |-> "NumLock"],
     [name |-> <<"p", "r", "i", "n", "t">>, code |-> "PrintScreen"],
     [name |-> <<"p", "a", "u", "s", "e">>, code |-> "Pause"],
     [name |-> <<"m", "e", "n", "u">>, code |-> "Menu"],
     [name |-> <<"k", "e", "y", "p", "a", "d", "b", "e", "g", "i", "n">>, code |-> "KeypadBegin"]}

\* The modifier a prefix names, "none" for an unknown one.
modifier_of(p) ==
    IF p \in {<<"s">>, <<"S">>} THEN SHIFT
    ELSE IF p \in {<<"c">>, <<"C">>} THEN CONTROL
    ELSE IF p \in {<<"a">>, <<"A">>} THEN ALT
    ELSE "none"

\* map_key: ok is FALSE where the source bails.
map_key(key) ==
    LET parts == reverse(split(key))
        code == parts[1]
        prefixes == Tail(parts)
        parsed ==
            IF Len(code) = 1 THEN [ok |-> TRUE, code |-> Char(code[1])]
            ELSE IF code # <<>> /\ code[1] = "f"
                 THEN [ok |-> parse(Tail(code)).ok, code |-> F(parse(Tail(code)).n)]
            ELSE IF \E k \in NamedKeys : k.name = code
                 THEN [ok |-> TRUE, code |-> Key((CHOOSE k \in NamedKeys : k.name = code).code)]
            ELSE [ok |-> FALSE, code |-> Key("Null")]
        modifiers == {modifier_of(prefixes[i]) : i \in 1..Len(prefixes)}
    IN  [ok |-> parsed.ok /\ "none" \notin modifiers,
         event |-> KeyEvent(parsed.code, modifiers \ {"none"})]

\* HashMap::insert: the value of an equal key is replaced, the key is kept.
insert(m, k, v) ==
    IF \E e \in m : KeyEq(e.key, k)
    THEN {IF KeyEq(e.key, k) THEN [e EXCEPT !.value = v] ELSE e : e \in m}
    ELSE m \cup {[key |-> k, value |-> v]}

\* Binds::from_config; c is the configuration's entries in the order its
\* HashMap yields them.
RECURSIVE from_config(_)
from_config(c) ==
    IF c = <<>> THEN [ok |-> TRUE, map |-> {}]
    ELSE LET before == from_config(Front(c))
             k == map_key(Last(c).key)
         IN  IF ~before.ok \/ ~k.ok THEN [ok |-> FALSE, map |-> {}]
             ELSE [ok |-> TRUE, map |-> insert(before.map, k.event, Last(c).value)]

NoBinding == [some |-> FALSE, value |-> "none"]

\* HashMap::get with the derived equality of two structs: no two of the three
\* encodings of a shifted letter are equal.
get_exact(m, ev) ==
    IF \E e \in m : e.key = ev
    THEN [some |-> TRUE, value |-> (CHOOSE e \in m : e.key = ev).value]
    ELSE NoBinding

\* Binds::get
Binds_get(m, ev) ==
    IF \E e \in m : KeyEq(e.key, ev)
    THEN [some |-> TRUE, value |-> (CHOOSE e \in m : KeyEq(e.key, ev)).value]
    ELSE NoBinding

----------------------------------------------------------------------------
(* The canvas under arbitrary calls of edit, clear, undo and redo. *)

\* No shape drawn yet, nothing on the terminal yet.
NoShape == [kind |-> "None"]

NoFrame == [some |-> FALSE, text |-> <<>>]

\* No configuration read yet.
NoBinds == [loaded |-> FALSE]

NoRect == [some |-> FALSE, top_left |-> Pt(0, 0), bottom_right |-> Pt(0, 0)]

\* The operations called so far, keeping the last two.
Called(name) ==
    LET s == Append(ops, name) IN IF Len(s) > 2 THEN Tail(s) ELSE s

\* Edits the callers draw from: a horizontal and a vertical run that cross at
\* their common start (MaxCoord, MaxCoord) and reach beyond the initial grid,
\* and an edit without characters that starts beyond every grid of the model.
Start == Pt(MaxCoord, MaxCoord)

Far == MaxCoord + MaxRun + InitSize

Runs == {Right(Start, Repeat("-", MaxRun)), Down(Start, Repeat("|", MaxRun))}

NoChars == Right(Pt(Far, Far), <<>>)

\* The edit sequences of at most n edits: runs, with or without the edit
\* without characters at the end.
EditSeqs(n) ==
    UNION {[1..k -> Runs] : k \in 0..n}
        \cup UNION {{Append(E, NoChars) : E \in [1..k -> Runs]} : k \in 0..(n - 1)}

\* Points the callers clear.
ClearPoints == {Start}

\* Batches on a stack plus the edits they hold.
RECURSIVE Stored(_)
Stored(stack) ==
    IF stack = <<>> THEN 0 ELSE 1 + Len(Last(stack).edits) + Stored(Front(stack))

InitCanvas ==
    /\ canvas \in {new(n, n) : n \in {0, InitSize}}
    /\ panicked = FALSE
    /\ ops = <<>>
    /\ arg = <<>>
    /\ expected = NoRect
    /\ origin = Pt(0, 0)
    /\ found = NoRect
    /\ doc = <<>>
    /\ app = App_default
    /\ keys = 0
    /\ anchors = NoAnchors
    /\ shape = NoShape
    /\ frame = NoFrame
    /\ binds = NoBinds

Edit(E) ==
    /\ ~panicked
    /\ Stored(canvas.undo) + Stored(canvas.redo) + Len(E) + 1 <= MaxStored
    /\ LET r == edit(canvas, E)
       IN  canvas' = r.canvas /\ panicked' = ~r.ok
    /\ ops' = Called("edit")
    /\ arg' = E
    /\ UNCHANGED <<expected, origin, found, doc, app, keys, anchors, shape, frame, binds>>

Clear(p) ==
    /\ ~panicked
    /\ Stored(canvas.undo) + Stored(canvas.redo) + 2 <= MaxStored
    /\ LET r == clear(canvas, p)
       IN  canvas' = r.canvas /\ panicked' = ~r.ok
    /\ ops' = Called("clear")
    /\ arg' = <<Right(p, <<EMPTY>>)>>
    /\ UNCHANGED <<expected, origin, found, doc, app, keys, anchors, shape, frame, binds>>

Undo ==
    /\ ~panicked
    /\ LET r == undo(canvas)
       IN  canvas' = r.canvas /\ panicked' = ~r.ok
    /\ ops' = Called(IF canvas.undo = <<>> THEN "undo_none" ELSE "undo")
    /\ arg' = <<>>
    /\ UNCHANGED <<expected, origin, found, doc, app, keys, anchors, shape, frame, binds>>

Redo ==
    /\ ~panicked
    /\ LET r == redo(canvas)
       IN  canvas' = r.canvas /\ panicked' = ~r.ok
    /\ ops' = Called(IF canvas.redo = <<>> THEN "redo_none" ELSE "redo")
    /\ arg' = <<>>
    /\ UNCHANGED <<expected, origin, found, doc, app, keys, anchors, shape, frame, binds>>

Next ==
    \/ \E E \in EditSeqs(MaxStored - 1 - Stored(canvas.undo) - Stored(canvas.redo)) : Edit(E)
    \/ \E p \in ClearPoints : Clear(p)
    \/ Undo
    \/ Redo

Spec == InitCanvas /\ [][Next]_vars

----------------------------------------------------------------------------
(* One rectangle drawn on a blank canvas, then scanned from every point of  *)
(* the grid (tests::test_match_rect, for every rectangle of the bounds).    *)

InitRect ==
    /\ canvas = new(MaxRect + 2, MaxRect + 2)
    /\ panicked = FALSE
    /\ ops = <<>>
    /\ arg = <<>>
    /\ expected = NoRect
    /\ origin = Pt(0, 0)
    /\ found = NoRect
    /\ doc = <<>>
    /\ app = App_default
    /\ keys = 0
    /\ anchors = NoAnchors
    /\ shape = NoShape
    /\ frame = NoFrame
    /\ binds = NoBinds

DrawRect(r) ==
    /\ ~panicked
    /\ ~expected.some
    /\ LET res == edit(canvas, rect_edits(r))
       IN  canvas' = res.canvas /\ panicked' = ~res.ok
    /\ expected' = [some |-> TRUE, top_left |-> r.top_left, bottom_right |-> r.bottom_right]
    /\ ops' = Called("edit")
    /\ arg' = rect_edits(r)
    /\ UNCHANGED <<origin, found, doc, app, keys, anchors, shape, frame, binds>>

RectAround(p) ==
    /\ ~panicked
    /\ expected.some
    /\ LET res == rect_around(canvas, p)
       IN  /\ found' = [some |-> res.some, top_left |-> res.top_left,
                        bottom_right |-> res.bottom_right]
           /\ panicked' = ~res.ok
    /\ origin' = p
    /\ ops' = Called("rect_around")
    /\ arg' = <<>>
    /\ UNCHANGED <<canvas, expected, doc, app, keys, anchors, shape, frame, binds>>

NextRect ==
    \/ \E x1 \in 0..MaxRect : \E y1 \in 0..MaxRect :
        \E x2 \in (x1 + 1)..MaxRect : \E y2 \in (y1 + 1)..MaxRect :
            DrawRect(Rect(x1, y1, x2, y2))
    \/ \E x \in 0..(MaxRect + 1) : \E y \in 0..(MaxRect + 1) : RectAround(Pt(x, y))

SpecRect == InitRect /\ [][NextRect]_vars

----------------------------------------------------------------------------
(* Documents loaded at start-up and written by save. *)

DocChars == {"a", EMPTY, NEWLINE}

Docs == UNION {[1..n -> DocChars] : n \in 0..MaxDoc}

InitText ==
    /\ doc \in Docs
    /\ canvas = new(0, 0)
    /\ panicked = FALSE
    /\ ops = <<>>
    /\ arg = <<>>
    /\ expected = NoRect
    /\ origin = Pt(0, 0)
    /\ found = NoRect
    /\ app = App_default
    /\ keys = 0
    /\ anchors = NoAnchors
    /\ shape = NoShape
    /\ frame = NoFrame
    /\ binds = NoBinds

\* App::new, for a path that exists.
Load ==
    /\ ~panicked
    /\ canvas' = from_str(doc)
    /\ ops' = Called("load")
    /\ UNCHANGED <<panicked, arg, expected, origin, found, doc, app, keys, anchors, shape, frame, binds>>

\* Action::Save
Save ==
    /\ ~panicked
    /\ Len(to_string(canvas)) <= MaxSave
    /\ doc' = to_string(canvas)
    /\ ops' = Called("save")
    /\ UNCHANGED <<canvas, panicked, arg, expected, origin, found, app, keys, anchors, shape, frame, binds>>

NextText == Load \/ Save

SpecText == InitText /\ [][NextText]_vars

----------------------------------------------------------------------------
(* The key handler, App::handle_key_event, from an empty document. Each      *)
(* action below is one call with a key bound to that Action; in Text mode    *)
(* the Key actions are the keys that the buffer takes before any binding is  *)
(* looked up.                                                                *)

Moves == {[x |-> 0, y |-> -1], [x |-> -1, y |-> 0], [x |-> 0, y |-> 1], [x |-> 1, y |-> 0]}

TextChars == {"a"}

\* The documents a session starts from: an empty file, or a drawn rectangle.
BoxDoc ==
    <<TOP_LEFT, HORIZONTAL, TOP_RIGHT, NEWLINE,
      VERTICAL, EMPTY, VERTICAL, NEWLINE,
      BOTTOM_LEFT, HORIZONTAL, BOTTOM_RIGHT>>

AppDocs == {<<>>, BoxDoc}

NoAnchor == [some |-> FALSE, at |-> Pt(0, 0)]

Anchor(p) == [some |-> TRUE, at |-> p]

\* The location a commit of the mode's shape is recorded with.
AnchorOf(m) ==
    IF m.kind = "Rect" THEN Anchor(m.rect.top_left)
    ELSE IF m.kind = "Line" THEN Anchor(m.line.start)
    ELSE IF m.kind = "Text" THEN Anchor(m.text.start)
    ELSE IF m.kind = "SelectRect" THEN Anchor(m.cursor_start)
    ELSE NoAnchor

Pushed(at) == [undo |-> Append(anchors.undo, at), redo |-> <<>>]

Running == ~panicked /\ ~app.exit /\ keys < MaxKeys

InitApp ==
    /\ doc \in AppDocs
    /\ canvas = from_str(doc)
    /\ app = App_default
    /\ keys = 0
    /\ anchors = NoAnchors
    /\ shape = NoShape
    /\ frame = NoFrame
    /\ binds = NoBinds
    /\ panicked = FALSE
    /\ ops = <<>>
    /\ arg = <<>>
    /\ expected = NoRect
    /\ origin = Pt(0, 0)
    /\ found = NoRect

Step(name, r, anc) ==
    /\ app' = r.app
    /\ keys' = keys + 1
    /\ canvas' = r.canvas
    /\ panicked' = ~r.ok
    /\ ops' = <<name>>
    /\ anchors' = anc
    /\ frame' = NoFrame
    /\ UNCHANGED <<arg, expected, origin, found, shape, binds>>

HandleQuit ==
    /\ Running
    /\ Step("quit", action_quit(app, canvas), anchors)
    /\ UNCHANGED doc

HandleSave ==
    /\ Running
    /\ Step("save", Handled(app, canvas, TRUE), anchors)
    /\ doc' = to_string(canvas)

HandleMoveCursor(d) ==
    /\ Running
    /\ Step("move_cursor", action_move_cursor(app, canvas, d.x, d.y), anchors)
    /\ UNCHANGED doc

HandleEnterMode(m) ==
    /\ Running
    /\ Step("enter_mode", action_enter_mode(app, canvas, m), anchors)
    /\ UNCHANGED doc

HandleLineAddPoint ==
    /\ Running
    /\ Step("line_add_point", action_line_add_point(app, canvas),
            IF app.mode.kind = "Line" THEN Pushed(AnchorOf(app.mode)) ELSE anchors)
    /\ UNCHANGED doc

HandleLineMirror ==
    /\ Running
    /\ Step("line_mirror", action_line_mirror(app, canvas), anchors)
    /\ UNCHANGED doc

HandleExitMode ==
    /\ Running
    /\ Step("exit_mode", action_exit_mode(app, canvas),
            IF app.mode.kind # "Normal" THEN Pushed(AnchorOf(app.mode)) ELSE anchors)
    /\ UNCHANGED doc

HandleTextAddLine ==
    /\ Running
    /\ Step("text_add_line", action_text_add_line(app, canvas), anchors)
    /\ UNCHANGED doc

HandleDelete ==
    /\ Running
    /\ Step("delete", action_delete(app, canvas),
            IF app.mode.kind \in {"Normal", "SelectRect"}
            THEN Pushed(AnchorOf(app.mode)) ELSE anchors)
    /\ UNCHANGED doc

HandleUndo ==
    /\ Running
    /\ Step(IF canvas.undo = <<>> THEN "undo_none" ELSE "undo", action_undo(app, canvas),
            IF canvas.undo = <<>> THEN anchors
            ELSE [undo |-> Front(anchors.undo),
                  redo |-> Append(anchors.redo, Last(anchors.undo))])
    /\ UNCHANGED doc

HandleRedo ==
    /\ Running
    /\ Step(IF canvas.redo = <<>> THEN "redo_none" ELSE "redo", action_redo(app, canvas),
            IF canvas.redo = <<>> THEN anchors
            ELSE [redo |-> Front(anchors.redo),
                  undo |-> Append(anchors.undo, Last(anchors.redo))])
    /\ UNCHANGED doc

HandleSelectRect ==
    /\ Running
    /\ Step("select_rect", action_select_rect(app, canvas), anchors)
    /\ UNCHANGED doc

KeyBackspace ==
    /\ Running
    /\ app.mode.kind = "Text"
    /\ Step("key_backspace", key_backspace(app, canvas), anchors)
    /\ UNCHANGED doc

KeyChar(ch) ==
    /\ Running
    /\ app.mode.kind = "Text"
    /\ Step("key_char", key_char(app, canvas, ch), anchors)
    /\ UNCHANGED doc

KeyEnter ==
    /\ Running
    /\ app.mode.kind = "Text"
    /\ Step("key_enter", key_enter(app, canvas), anchors)
    /\ UNCHANGED doc

\* terminal.draw(|frame| self.render_frame(frame)), once before each key event.
Render ==
    /\ Running
    /\ ~frame.some
    /\ \E r \in {render(app, canvas)} :
          /\ canvas' = r.canvas
          /\ panicked' = ~r.ok
          /\ frame' = [some |-> TRUE, text |-> r.text]
    /\ ops' = <<"render">>
    /\ UNCHANGED <<arg, expected, origin, found, doc, app, keys, anchors, shape, binds>>

NextApp ==
    \/ Render
    \/ HandleQuit
    \/ HandleSave
    \/ \E d \in Moves : HandleMoveCursor(d)
    \/ \E m \in {"Rect", "Line", "Text"} : HandleEnterMode(m)
    \/ HandleLineAddPoint
    \/ HandleLineMirror
    \/ HandleExitMode
    \/ HandleTextAddLine
    \/ HandleDelete
    \/ HandleUndo
    \/ HandleRedo
    \/ HandleSelectRect
    \/ KeyBackspace
    \/ \E ch \in TextChars : KeyChar(ch)
    \/ KeyEnter

SpecApp == InitApp /\ [][NextApp]_vars

----------------------------------------------------------------------------
(* Helpers of the properties. *)

LastOp(o) == IF o = <<>> THEN "none" ELSE o[Len(o)]

IsEditCall(o) == LastOp(o) \in {"edit", "clear"}

\* k calls of undo, then of redo, on a canvas.
RECURSIVE UndoN(_, _)
UndoN(c, k) == IF k = 0 THEN c ELSE UndoN(undo(c).canvas, k - 1)

RECURSIVE RedoN(_, _)
RedoN(c, k) ==
    IF k = 0 THEN [canvas |-> c, ok |-> TRUE]
    ELSE LET r == redo(c)
         IN  IF r.ok THEN RedoN(r.canvas, k - 1) ELSE r

\* The cells an edit writes, and the size it needs, by the rule of the claim.
Cells(e) ==
    {IF e.dir = "Right" THEN <<e.start.x + i, e.start.y>> ELSE <<e.start.x, e.start.y + i>> :
        i \in 0..(Len(e.chars) - 1)}

NeedX(e) ==
    IF Len(e.chars) = 0 THEN 0
    ELSE IF e.dir = "Right" THEN e.start.x + Len(e.chars) ELSE e.start.x + 1

NeedY(e) ==
    IF Len(e.chars) = 0 THEN 0
    ELSE IF e.dir = "Right" THEN e.start.y + 1 ELSE e.start.y + Len(e.chars)

MaxOf(S) == IF S = {} THEN 0 ELSE LET m == CHOOSE m \in S : \A n \in S : n <= m IN m

Blank(c) == \A y \in 1..Len(c.current) : \A x \in 1..Len(c.current[y]) : c.current[y][x] = EMPTY

\* Some two edits of a batch write the same cell.
Overlapping(edits) ==
    \E i \in 1..Len(edits) : \E j \in 1..Len(edits) :
        i # j /\ Cells(edits[i]) \cap Cells(edits[j]) # {}

----------------------------------------------------------------------------
(* Properties of the canvas under Spec. *)

\* C1: undo is a true inverse of edit: after any edit sequence E (also one whose
\* edits overlap or reach beyond the grid) applied to any reachable canvas, an
\* undo gives back a grid of the same dimensions and cells as before the edit.
C1_UndoInvertsEdit ==
    [][IsEditCall(ops') =>
        LET u == undo(canvas') IN u.ok /\ u.canvas.current = canvas.current]_vars

\* An undo has just reverted an edit of overlapping edits that had grown the
\* grid of a canvas with history, and the grid is not blank.
C1_Witness ==
    /\ Len(ops) >= 2 /\ ops[Len(ops) - 1] = "edit" /\ LastOp(ops) = "undo"
    /\ ~panicked /\ canvas.undo # <<>> /\ canvas.redo # <<>> /\ ~Blank(canvas)
    /\ LET r == Last(canvas.redo)
       IN  Overlapping(r.edits) /\ (r.size_x > size(canvas).x \/ r.size_y > size(canvas).y)

\* C2 (as amended): k undos that each find a batch on the undo stack, followed
\* by k redos, give back the grid as it was before the first of those undos; in
\* particular edit(E); undo(); redo() gives the grid as it was after edit(E).
C2_RedoRestores ==
    ~panicked =>
        \A k \in 1..Len(canvas.undo) :
            LET r == RedoN(UndoN(canvas, k), k)
            IN  r.ok /\ r.canvas.current = canvas.current

\* C2 (as claimed): any k undos followed by k redos give back the grid as it
\* was before the first of those undos.
C2_AnyUndosThenRedos ==
    ~panicked =>
        \A k \in 1..MaxStored :
            LET r == RedoN(UndoN(canvas, k), k)
            IN  r.ok /\ r.canvas.current = canvas.current

\* Two undos have been followed by two redos (two redos in a row need two
\* batches on the redo stack), the last of which grew the grid again.
C2_Witness ==
    /\ ops = <<"redo", "redo">> /\ ~panicked /\ canvas.redo = <<>>
    /\ Len(canvas.undo) >= 2 /\ ~Blank(canvas)
    /\ Last(canvas.undo).edits # <<>>

\* C3: every edit() call empties the redo stack: a redo right after it changes
\* nothing, an undo then reverts that edit and a redo re-applies that edit.
C3_EditClearsRedo ==
    [][IsEditCall(ops') =>
        /\ canvas'.redo = <<>>
        /\ redo(canvas') = [canvas |-> canvas', ok |-> TRUE]
        /\ undo(canvas').canvas.current = canvas.current
        /\ redo(undo(canvas').canvas).canvas.current = canvas'.current]_vars

\* An edit was undone, which left a batch on the redo stack, and another
\* edit followed.
C3_Witness ==
    /\ ops = <<"undo", "edit">> /\ ~panicked /\ arg # <<>>
    /\ canvas.undo # <<>> /\ Last(canvas.undo).edits # <<>> /\ ~Blank(canvas)

\* C4: every batch on the undo stack, pushed by edit() or by redo(), stores the
\* grid width and height in effect right before the operation it reverses, so
\* that undoing it gives back the prior grid exactly.
C4_BatchStoresPriorSize ==
    [][Len(canvas'.undo) > Len(canvas.undo) =>
        LET b == Last(canvas'.undo)
        IN  /\ b.size_x = size(canvas).x
            /\ b.size_y = size(canvas).y
            /\ undo(canvas').canvas.current = canvas.current]_vars

\* C5: undo() on an empty undo stack and redo() on an empty redo stack change
\* nothing (grid, undo stack, redo stack) and do not fail.
C5_EmptyStackNoOp ==
    [][(\/ LastOp(ops') \in {"undo", "undo_none"} /\ canvas.undo = <<>>
        \/ LastOp(ops') \in {"redo", "redo_none"} /\ canvas.redo = <<>>)
       => canvas' = canvas /\ ~panicked']_vars

\* On a canvas with history, the one batch was undone and the next undo found
\* nothing to undo.
C5_Witness ==
    /\ ops = <<"undo", "undo_none">> /\ ~panicked
    /\ canvas.undo = <<>> /\ canvas.redo # <<>> /\ Last(canvas.redo).edits # <<>>

\* C6: edit() only grows the grid: the height after edit(E) is the larger of
\* the height before and the largest bounds.y in E, likewise the width, where a
\* Right edit of n >= 1 characters at (x, y) has bounds (x + n, y + 1), a Down
\* edit has bounds (x + 1, y + n) and an edit without characters has bounds
\* (0, 0); the cells added and not written are blank.
C6_EditGrows ==
    [][IsEditCall(ops') =>
        LET E == arg'
            s == size(canvas)
            t == size(canvas')
            written == UNION {Cells(E[i]) : i \in 1..Len(E)}
        IN  /\ ~panicked'
            /\ t.y = Max(s.y, MaxOf({NeedY(E[i]) : i \in 1..Len(E)}))
            /\ t.x = Max(s.x, MaxOf({NeedX(E[i]) : i \in 1..Len(E)}))
            /\ \A y \in 1..t.y :
                /\ Len(canvas'.current[y]) = t.x
                /\ \A x \in 1..t.x :
                    ((y > s.y \/ x > s.x) /\ <<x - 1, y - 1>> \notin written)
                        => canvas'.current[y][x] = EMPTY]_vars

\* An edit sequence holding an edit without characters that starts beyond the
\* grid, and runs that grew the grid in both directions, has been applied.
C6_Witness ==
    /\ LastOp(ops) = "edit" /\ ~panicked /\ canvas.undo # <<>>
    /\ \E i \in 1..Len(arg) :
        arg[i].chars = <<>> /\ arg[i].start.x >= size(canvas).x /\ arg[i].start.y >= size(canvas).y
    /\ LET b == Last(canvas.undo)
       IN  /\ b.size_x > 0 /\ b.size_x < size(canvas).x
           /\ b.size_y > 0 /\ b.size_y < size(canvas).y

\* C7: no cell write or read addresses a position outside the grid, in any
\* interleaving of edit, clear, undo and redo.
C7_NoPanic == ~panicked

\* A batch that reaches beyond the initial grid has been redone and undone
\* again: redo and undo have replayed coordinates outside the grid that the
\* undo before them left.
C7_Witness ==
    /\ ops = <<"redo", "undo">> /\ ~panicked /\ canvas.redo # <<>>
    /\ \E e \in {Last(canvas.redo).edits[i] : i \in 1..Len(Last(canvas.redo).edits)} :
        \E cell \in Cells(e) : cell[1] >= InitSize \/ cell[2] >= InitSize

----------------------------------------------------------------------------
(* The boundary scan under SpecRect. *)

\* C8: on a canvas holding exactly one drawn rectangle, rect_around(p) returns
\* that rectangle for every p strictly inside it and no match for every other
\* p of the grid, also for p on the border or on a corner.
C8_RectAroundInterior ==
    LastOp(ops) = "rect_around" =>
        /\ ~panicked
        /\ IF /\ expected.top_left.x < origin.x /\ origin.x < expected.bottom_right.x
              /\ expected.top_left.y < origin.y /\ origin.y < expected.bottom_right.y
           THEN found = expected
           ELSE ~found.some

----------------------------------------------------------------------------
(* Load and save under SpecText. *)

\* C9: from_text(s) builds a grid with one row per line of s and as many
\* columns as the longest line has characters, shorter lines being padded
\* with blanks on the right.
C9_FromTextPadsToLongest ==
    LastOp(ops) = "load" =>
        LET ls == lines(doc)
            w == MaxOf({Len(ls[i]) : i \in 1..Len(ls)})
        IN  /\ Len(canvas.current) = Len(ls)
            /\ \A i \in 1..Len(ls) : canvas.current[i] = Resize(ls[i], w, EMPTY)

\* C10: to_text(C) is C's rows joined by newlines, trailing blanks kept, and
\* loading it back gives a grid with the dimensions and cells of C, for every
\* canvas C with at least one row and one column.
C10_SaveLoadRoundTrip ==
    [][(size(canvas).y >= 1 /\ size(canvas).x >= 1) =>
          LET h == size(canvas).y
              w == size(canvas).x
          IN  /\ LastOp(ops') = "save" =>
                  /\ Len(doc') = h * w + h - 1
                  /\ \A i \in 1..h : \A j \in 1..w :
                        doc'[(i - 1) * (w + 1) + j] = canvas.current[i][j]
                  /\ \A i \in 1..(h - 1) : doc'[i * (w + 1)] = NEWLINE
              /\ (LastOp(ops) = "save" /\ LastOp(ops') = "load") =>
                  canvas'.current = canvas.current]_vars

----------------------------------------------------------------------------
(* The key handler under SpecApp. *)

\* The edits of the shape a drawing mode holds.
ShapeEdits(m) ==
    IF m.kind = "Rect" THEN rect_edits(m.rect)
    ELSE IF m.kind = "Line" THEN line_edits(m.line)
    ELSE IF m.kind = "Text" THEN text_edits(m.text)
    ELSE <<>>

\* C11: exit-mode in Rect, Line or Text mode applies exactly the shape's edits
\* to the canvas as one undo batch, pushes the shape's anchor on the cursor
\* undo stack, clears the cursor redo stack and sets the mode to Normal.
C11_ExitModeCommits ==
    [][(ops' = <<"exit_mode">> /\ app.mode.kind \in {"Rect", "Line", "Text"}) =>
          /\ ~panicked'
          /\ canvas'.current = apply_edits(canvas, ShapeEdits(app.mode), TRUE).canvas.current
          /\ Len(canvas'.undo) = Len(canvas.undo) + 1
          /\ SubSeq(canvas'.undo, 1, Len(canvas.undo)) = canvas.undo
          /\ undo(canvas').canvas.current = canvas.current
          /\ app'.undo_cursor_pos = Append(app.undo_cursor_pos, AnchorOf(app.mode).at)
          /\ app'.redo_cursor_pos = <<>>
          /\ app'.mode = Mode_Normal
          /\ app'.cursor = app.cursor]_vars

\* A rectangle was committed on top of earlier history, with the cursor away
\* from the rectangle's first corner.
C11_Witness ==
    /\ ops = <<"exit_mode">>
    /\ ~panicked
    /\ app.mode = Mode_Normal
    /\ Len(canvas.undo) >= 2
    /\ Len(Last(canvas.undo).edits) = 4
    /\ Last(anchors.undo).some
    /\ Last(app.undo_cursor_pos) = Last(anchors.undo).at
    /\ Last(app.undo_cursor_pos) # app.cursor
    /\ ~Blank(canvas)

\* C12: an undo that reverts a canvas edit places the cursor at the location
\* recorded for that same edit, and a redo that re-applies an edit places it at
\* the location recorded for that edit; for an edit without a recorded location
\* the cursor stays where it is, and never jumps to the location of another edit.
C12_CursorFollowsEdit ==
    [][/\ ops' = <<"undo">> =>
            app'.cursor = IF Last(anchors.undo).some THEN Last(anchors.undo).at
                          ELSE app.cursor
       /\ ops' = <<"redo">> =>
            app'.cursor = IF Last(anchors.redo).some THEN Last(anchors.redo).at
                          ELSE app.cursor]_vars

\* The glyph a rectangle with corners r.top_left and r.bottom_right, in any
\* order, shows at (x, y): a corner glyph at its four corners, the horizontal
\* glyph on its top and bottom rows and the vertical glyph on its side columns
\* strictly between the corners, "none" off its border.
Glyph(r, x, y) ==
    LET x1 == Min(r.top_left.x, r.bottom_right.x)
        x2 == Max(r.top_left.x, r.bottom_right.x)
        y1 == Min(r.top_left.y, r.bottom_right.y)
        y2 == Max(r.top_left.y, r.bottom_right.y)
    IN  IF x \in {x1, x2} /\ y \in {y1, y2} THEN "+"
        ELSE IF y \in {y1, y2} /\ x1 < x /\ x < x2 THEN "-"
        ELSE IF x \in {x1, x2} /\ y1 < y /\ y < y2 THEN "|"
        ELSE "none"

\* The character at (x, y), blank outside the grid.
CellAt(c, x, y) == IF InGrid(c, x, y) THEN c.current[y + 1][x + 1] ELSE EMPTY

\* C13: exit-mode in SelectRect mode blanks every border cell of the originally
\* selected rectangle, then draws the rectangle at its dragged position, as one
\* undo batch, and returns to Normal; one undo restores the grid as it was
\* before the move, also when the two footprints overlap.
C13_ExitModeMovesRect ==
    [][(ops' = <<"exit_mode">> /\ app.mode.kind = "SelectRect") =>
          /\ ~panicked'
          /\ app'.mode = Mode_Normal
          /\ Len(canvas'.undo) = Len(canvas.undo) + 1
          /\ size(canvas').x >= size(canvas).x /\ size(canvas').y >= size(canvas).y
          /\ \A y \in 0..(size(canvas').y - 1) : \A x \in 0..(size(canvas').x - 1) :
                CellAt(canvas', x, y) =
                    IF Glyph(app.mode.current, x, y) # "none"
                    THEN Glyph(app.mode.current, x, y)
                    ELSE IF Glyph(app.mode.original, x, y) # "none" THEN EMPTY
                    ELSE CellAt(canvas, x, y)
          /\ undo(canvas').canvas.current = canvas.current]_vars

\* A selected rectangle with an interior was dragged onto part of its own
\* border and committed.
C13_Witness ==
    /\ ops = <<"exit_mode">>
    /\ ~panicked
    /\ app.mode = Mode_Normal
    /\ canvas.undo # <<>>
    /\ LET b == Last(canvas.undo).edits
       IN  /\ Len(b) = 8
           /\ b[8].start # b[4].start
           /\ Len(b[8].chars) >= 3
           /\ Len(b[6].chars) >= 1
           /\ Cells(b[8]) \cap Cells(b[4]) # {}

\* C14: delete in Normal mode writes one blank at the cursor cell as an undoable
\* edit and changes no other cell; delete in SelectRect mode blanks every border
\* and corner cell of the originally selected rectangle, wherever the copy was
\* dragged, changes no other cell, and returns to Normal.
C14_DeleteBlanks ==
    [][(ops' = <<"delete">> /\ app.mode.kind \in {"Normal", "SelectRect"}) =>
          /\ ~panicked'
          /\ app'.mode = Mode_Normal
          /\ Len(canvas'.undo) = Len(canvas.undo) + 1
          /\ undo(canvas').canvas.current = canvas.current
          /\ size(canvas').x >= size(canvas).x /\ size(canvas').y >= size(canvas).y
          /\ \A y \in 0..(size(canvas').y - 1) : \A x \in 0..(size(canvas').x - 1) :
                CellAt(canvas', x, y) =
                    IF app.mode.kind = "Normal"
                    THEN IF Pt(x, y) = app.cursor THEN EMPTY ELSE CellAt(canvas, x, y)
                    ELSE IF Glyph(app.mode.original, x, y) # "none" THEN EMPTY
                         ELSE CellAt(canvas, x, y)]_vars

\* A selected rectangle with an interior was deleted after the cursor, and
\* with it the copy, had been moved away from where the selection was made.
C14_Witness ==
    /\ ops = <<"delete">>
    /\ ~panicked
    /\ app.mode = Mode_Normal
    /\ canvas.undo # <<>>
    /\ Last(anchors.undo).some
    /\ Last(app.undo_cursor_pos) # app.cursor
    /\ LET b == Last(canvas.undo).edits
       IN  /\ Len(b) = 4
           /\ Len(b[4].chars) >= 3
           /\ \A i \in 1..Len(b[4].chars) : b[4].chars[i] # EMPTY
           /\ Len(b[1].chars) >= 1
    /\ Blank(canvas)

\* C15: add-line-point in Line mode commits the current segment's edits at once
\* as one undo batch, with the segment's start recorded on the cursor undo
\* stack, and leaves the mode in Line with a new segment that starts and ends
\* at the old segment's end; the closing exit-mode adds one more batch, so
\* there is one undo batch per segment.
C15_AddLinePoint ==
    [][/\ (ops' = <<"line_add_point">> /\ app.mode.kind = "Line") =>
            /\ ~panicked'
            /\ canvas'.current =
                   apply_edits(canvas, line_edits(app.mode.line), TRUE).canvas.current
            /\ Len(canvas'.undo) = Len(canvas.undo) + 1
            /\ SubSeq(canvas'.undo, 1, Len(canvas.undo)) = canvas.undo
            /\ undo(canvas').canvas.current = canvas.current
            /\ app'.undo_cursor_pos = Append(app.undo_cursor_pos, app.mode.line.start)
            /\ app'.redo_cursor_pos = <<>>
            /\ app'.mode.kind = "Line"
            /\ app'.mode.line.start = app.mode.line.end
            /\ app'.mode.line.end = app.mode.line.end
       /\ (ops' = <<"exit_mode">> /\ app.mode.kind = "Line") =>
            /\ Len(canvas'.undo) = Len(canvas.undo) + 1
            /\ SubSeq(canvas'.undo, 1, Len(canvas.undo)) = canvas.undo
            /\ app'.mode = Mode_Normal]_vars

\* Two segments were committed, the first by add-line-point and the second,
\* which starts elsewhere, by exit-mode: two batches of a line's two edits.
C15_Witness ==
    /\ ops = <<"exit_mode">>
    /\ ~panicked
    /\ app.mode = Mode_Normal
    /\ Len(canvas.undo) = 2
    /\ Len(app.undo_cursor_pos) = 2
    /\ app.undo_cursor_pos[1] # app.undo_cursor_pos[2]
    /\ \A i \in 1..2 :
          /\ Len(canvas.undo[i].edits) = 2
          /\ canvas.undo[i].edits[1].dir = "Right"
          /\ canvas.undo[i].edits[2].dir = "Down"
          /\ Len(canvas.undo[i].edits[1].chars) + Len(canvas.undo[i].edits[2].chars) >= 3

\* Whether the action named o does not apply to the state (a, c).
NotApplicable(o, a, c) ==
    \/ o \in {<<"line_add_point">>, <<"line_mirror">>} /\ a.mode.kind # "Line"
    \/ o = <<"text_add_line">>
    \/ o = <<"exit_mode">> /\ a.mode.kind = "Normal"
    \/ o = <<"delete">> /\ a.mode.kind \in {"Rect", "Line", "Text"}
    \/ o = <<"select_rect">> /\ ~rect_around(c, a.cursor).some
    \/ o \in {<<"undo_none">>, <<"redo_none">>}

\* C16: in every mode, handling any action of the vocabulary completes without
\* failure, and an action that does not apply to the current state leaves mode,
\* canvas and cursor unchanged.
C16_ActionsNeverFail ==
    [][/\ ~panicked'
       /\ NotApplicable(ops', app, canvas) =>
            /\ app'.mode = app.mode
            /\ canvas' = canvas
            /\ app'.cursor = app.cursor]_vars

\* C17: in Text mode each newline key appends a line break to the buffer and
\* moves the cursor to column text.start.x on the row below its previous row,
\* whatever the buffer holds.
C17_NewlineToStartColumn ==
    [][ops' = <<"key_enter">> =>
          /\ ~panicked'
          /\ app'.mode.kind = "Text"
          /\ app'.mode.text.start = app.mode.text.start
          /\ app'.mode.text.text = Append(app.mode.text.text, NEWLINE)
          /\ app'.cursor = Pt(app.mode.text.start.x, app.cursor.y + 1)]_vars

----------------------------------------------------------------------------
(* One rectangle, its corners given in any order, drawn on a canvas          *)
(* (rect::tests::test_draw_rect_*, for every pair of corners of the bounds). *)

\* The canvases a rectangle is drawn on: empty, blank and large enough for
\* every rectangle of the bounds, and holding a 3x3 box.
DrawCanvases == {new(0, 0), new(MaxRect + 1, MaxRect + 1), from_str(BoxDoc)}

InitDraw ==
    /\ canvas \in DrawCanvases
    /\ panicked = FALSE
    /\ ops = <<>>
    /\ arg = <<>>
    /\ expected = NoRect
    /\ origin = Pt(0, 0)
    /\ found = NoRect
    /\ doc = <<>>
    /\ app = App_default
    /\ keys = 0
    /\ anchors = NoAnchors
    /\ shape = NoShape
    /\ frame = NoFrame
    /\ binds = NoBinds

\* canvas.edit(rect.edits().into_iter())
DrawAnyRect(r) ==
    /\ ~panicked
    /\ ~expected.some
    /\ LET res == edit(canvas, rect_edits(r))
       IN  canvas' = res.canvas /\ panicked' = ~res.ok
    /\ expected' = [some |-> TRUE, top_left |-> r.top_left, bottom_right |-> r.bottom_right]
    /\ ops' = <<"draw_rect">>
    /\ arg' = rect_edits(r)
    /\ UNCHANGED <<origin, found, doc, app, keys, anchors, shape, frame, binds>>

NextDraw ==
    \E x1 \in 0..MaxRect : \E y1 \in 0..MaxRect :
        \E x2 \in 0..MaxRect : \E y2 \in 0..MaxRect :
            DrawAnyRect(Rect(x1, y1, x2, y2))

SpecDraw == InitDraw /\ [][NextDraw]_vars

\* The cells of a grid, as points.
GridPoints(c) ==
    {p \in [x : 0..(size(c).x - 1), y : 0..(size(c).y - 1)] : InGrid(c, p.x, p.y)}

\* The cells of a grid that hold one of the characters cs.
Holding(c, cs) == {p \in GridPoints(c) : c.current[p.y + 1][p.x + 1] \in cs}

\* The rectangle given by the same two corners, in the three other orders.
Flips(r) ==
    {Rect(r.bottom_right.x, r.bottom_right.y, r.top_left.x, r.top_left.y),
     Rect(r.top_left.x, r.bottom_right.y, r.bottom_right.x, r.top_left.y),
     Rect(r.bottom_right.x, r.top_left.y, r.top_left.x, r.bottom_right.y)}

\* The rectangle drawn by the last step.
Drawn(e) == Rect(e.top_left.x, e.top_left.y, e.bottom_right.x, e.bottom_right.y)

\* Every character a batch of edits holds is blank.
AllBlank(edits) ==
    \A i \in 1..Len(edits) : \A j \in 1..Len(edits[i].chars) : edits[i].chars[j] = EMPTY

\* C18: the cells a rectangle renders on a blank canvas do not depend on the
\* order its corners are given in: the three other orders of the same corners
\* give the same grid, which holds a corner glyph at the four normalized
\* corners, the horizontal glyph on the top and bottom rows strictly between
\* the corners, the vertical glyph on the two side columns strictly between
\* the corner rows, and blanks elsewhere.
C18_CornerOrderIndependent ==
    [][(ops' = <<"draw_rect">> /\ Blank(canvas)) =>
          LET r == Drawn(expected')
          IN  /\ ~panicked'
              /\ \A f \in Flips(r) :
                    edit(canvas, rect_edits(f)).canvas.current = canvas'.current
              /\ \A x \in 0..(MaxRect + 1) : \A y \in 0..(MaxRect + 1) :
                    CellAt(canvas', x, y) =
                        IF Glyph(r, x, y) = "none" THEN EMPTY ELSE Glyph(r, x, y)]_vars

\* A rectangle given bottom-right corner first, wider and taller than one
\* cell, drawn on a blank canvas.
C18_Witness ==
    /\ ops = <<"draw_rect">> /\ ~panicked /\ expected.some
    /\ expected.top_left.x > expected.bottom_right.x + 1
    /\ expected.top_left.y > expected.bottom_right.y + 1
    /\ Len(canvas.undo) = 1 /\ AllBlank(canvas.undo[1].edits)
    /\ CellAt(canvas, expected.bottom_right.x, expected.bottom_right.y) = TOP_LEFT
    /\ CellAt(canvas, expected.bottom_right.x + 1, expected.bottom_right.y) = HORIZONTAL
    /\ CellAt(canvas, expected.top_left.x, expected.bottom_right.y + 1) = VERTICAL

\* C19: a rectangle whose two corners are equal renders one cell, a corner
\* glyph at that point: no other cell changes, a grid that already contains
\* the point keeps its size, and the two side edits hold no characters.
C19_DegenerateRect ==
    [][(ops' = <<"draw_rect">> /\ expected'.top_left = expected'.bottom_right) =>
          LET p == expected'.top_left
          IN  /\ ~panicked'
              /\ CellAt(canvas', p.x, p.y) = TOP_LEFT
              /\ \A x \in 0..(MaxRect + 1) : \A y \in 0..(MaxRect + 1) :
                    Pt(x, y) # p => CellAt(canvas', x, y) = CellAt(canvas, x, y)
              /\ InGrid(canvas, p.x, p.y) => size(canvas') = size(canvas)
              /\ ~InGrid(canvas, p.x, p.y) =>
                    /\ size(canvas').x = Max(size(canvas).x, p.x + 1)
                    /\ size(canvas').y = Max(size(canvas).y, p.y + 1)
              /\ arg'[3].chars = <<>> /\ arg'[4].chars = <<>>]_vars

\* A one-cell rectangle drawn inside the box of a grid that holds other glyphs.
C19_Witness ==
    /\ ops = <<"draw_rect">> /\ ~panicked /\ expected.some
    /\ expected.top_left = Pt(1, 1) /\ expected.bottom_right = Pt(1, 1)
    /\ CellAt(canvas, 1, 1) = TOP_LEFT
    /\ CellAt(canvas, 0, 0) = TOP_LEFT /\ CellAt(canvas, 1, 0) = HORIZONTAL
    /\ CellAt(canvas, 0, 1) = VERTICAL /\ CellAt(canvas, 2, 2) = BOTTOM_RIGHT
    /\ Len(canvas.undo) = 1 /\ canvas.undo[1].size_y = 3

\* C20: a rectangle whose corners differ by w >= 1 columns and h >= 1 rows,
\* drawn on a blank canvas, leaves exactly 4 cells with a corner glyph and
\* exactly 2(w+h)-4 cells with the horizontal or the vertical glyph, and every
\* other cell blank.
C20_BorderCellCount ==
    [][(/\ ops' = <<"draw_rect">> /\ Blank(canvas)
        /\ expected'.top_left.x # expected'.bottom_right.x
        /\ expected'.top_left.y # expected'.bottom_right.y) =>
          LET w == abs_diff(expected'.top_left.x, expected'.bottom_right.x)
              h == abs_diff(expected'.top_left.y, expected'.bottom_right.y)
          IN  /\ ~panicked'
              /\ Cardinality(Holding(canvas', {"+"})) = 4
              /\ Cardinality(Holding(canvas', {"-", "|"})) = 2 * (w + h) - 4
              /\ GridPoints(canvas') =
                    Holding(canvas', {"+"}) \cup Holding(canvas', {"-", "|"})
                        \cup Holding(canvas', {EMPTY})]_vars

\* A rectangle 3 columns wide and 2 rows tall past its corner, drawn on a
\* blank canvas: 4 corners and 6 border cells.
C20_Witness ==
    /\ ops = <<"draw_rect">> /\ ~panicked /\ expected.some
    /\ abs_diff(expected.top_left.x, expected.bottom_right.x) = 3
    /\ abs_diff(expected.top_left.y, expected.bottom_right.y) = 2
    /\ Len(canvas.undo) = 1 /\ AllBlank(canvas.undo[1].edits)
    /\ Cardinality(Holding(canvas, {"+"})) = 4
    /\ Cardinality(Holding(canvas, {"-", "|"})) = 6

----------------------------------------------------------------------------
(* One line or one text drawn on a blank canvas (line::tests and            *)
(* text::tests, for every line and text of the bounds).                     *)

\* The canvases a shape is drawn on: empty, and blank and large enough for
\* every line of the bounds.
ShapeCanvases == {new(0, 0), new(MaxLine + 1, MaxLine + 1)}

ShapePoints == {Pt(x, y) : x \in 0..MaxLine, y \in 0..MaxLine}

Lines == {[start |-> a, end |-> b, mirror |-> m] :
             a \in ShapePoints, b \in ShapePoints, m \in BOOLEAN}

TextStrings == UNION {[1..n -> {"a", "b", NEWLINE}] : n \in 0..MaxText}

Texts == {Text(p, t) : p \in ShapePoints, t \in TextStrings}

InitShape ==
    /\ canvas \in ShapeCanvases
    /\ panicked = FALSE
    /\ ops = <<>>
    /\ arg = <<>>
    /\ expected = NoRect
    /\ origin = Pt(0, 0)
    /\ found = NoRect
    /\ doc = <<>>
    /\ app = App_default
    /\ keys = 0
    /\ anchors = NoAnchors
    /\ shape = NoShape
    /\ frame = NoFrame
    /\ binds = NoBinds

\* canvas.edit(r.edits().into_iter()), r a Line
DrawLine(l) ==
    /\ ~panicked
    /\ shape = NoShape
    /\ LET res == edit(canvas, line_edits(l))
       IN  canvas' = res.canvas /\ panicked' = ~res.ok
    /\ shape' = [kind |-> "Line", line |-> l]
    /\ ops' = <<"draw_line">>
    /\ arg' = line_edits(l)
    /\ UNCHANGED <<expected, origin, found, doc, app, keys, anchors, frame, binds>>

\* canvas.edit(t.edits().into_iter()), t a Text
DrawText(t) ==
    /\ ~panicked
    /\ shape = NoShape
    /\ LET res == edit(canvas, text_edits(t))
       IN  canvas' = res.canvas /\ panicked' = ~res.ok
    /\ shape' = [kind |-> "Text", text |-> t]
    /\ ops' = <<"draw_text">>
    /\ arg' = text_edits(t)
    /\ UNCHANGED <<expected, origin, found, doc, app, keys, anchors, frame, binds>>

NextShape ==
    \/ \E l \in Lines : DrawLine(l)
    \/ \E t \in Texts : DrawText(t)

SpecShape == InitShape /\ [][NextShape]_vars

\* The glyph a line from a to b with its bend at `bend` shows at (x, y): a
\* corner glyph at a, bend and b, the vertical glyph on the column and the
\* horizontal glyph on the row that join them, "none" off the line.
LineGlyph(a, bend, b, x, y) ==
    LET p == Pt(x, y)
        between(u, v, w) == Min(u, w) <= v /\ v <= Max(u, w)
        onVert(u, v) == u.x = v.x /\ x = u.x /\ between(u.y, y, v.y)
        onHoriz(u, v) == u.y = v.y /\ y = u.y /\ between(u.x, x, v.x)
    IN  IF p \in {a, bend, b} THEN "+"
        ELSE IF onVert(a, bend) \/ onVert(bend, b) THEN "|"
        ELSE IF onHoriz(a, bend) \/ onHoriz(bend, b) THEN "-"
        ELSE "none"

\* The grid shows the line from a to b bending at `bend`, and nothing else.
ShowsLine(c, a, bend, b) ==
    \A x \in 0..(MaxLine + 1) : \A y \in 0..(MaxLine + 1) :
        CellAt(c, x, y) =
            IF LineGlyph(a, bend, b, x, y) = "none" THEN EMPTY
            ELSE LineGlyph(a, bend, b, x, y)

\* C21: a line with mirror = false, its end anywhere relative to its start,
\* emits the vertical segment first, covering column start.x between the rows
\* of start and end, then the horizontal segment, covering row end.y between
\* the columns of start and end; on a blank canvas the corner glyph is at
\* start, at the bend (start.x, end.y) and at end, every other covered cell
\* holds the vertical or the horizontal glyph, and start = end gives a single
\* corner glyph.
C21_LineVerticalFirst ==
    [][(ops' = <<"draw_line">> /\ ~shape'.line.mirror) =>
          LET a == shape'.line.start
              b == shape'.line.end
              bend == Pt(a.x, b.y)
          IN  /\ ~panicked'
              /\ Len(arg') = 2
              /\ arg'[1].dir = "Down"
              /\ Cells(arg'[1]) = {<<a.x, y>> : y \in Min(a.y, b.y)..Max(a.y, b.y)}
              /\ arg'[2].dir = "Right"
              /\ Cells(arg'[2]) = {<<x, b.y>> : x \in Min(a.x, b.x)..Max(a.x, b.x)}
              /\ ShowsLine(canvas', a, bend, b)
              /\ a = b => Cardinality(Holding(canvas', {"+", "-", "|"})) = 1]_vars

\* A line drawn up and to the left, vertical segment first, with cells
\* between its corners both ways.
C21_Witness ==
    /\ ops = <<"draw_line">> /\ ~panicked /\ ~shape.line.mirror
    /\ shape.line.start = Pt(MaxLine, MaxLine) /\ shape.line.end = Pt(0, 0)
    /\ CellAt(canvas, MaxLine, 1) = Line_VERTICAL
    /\ CellAt(canvas, 1, 0) = Line_HORIZONTAL
    /\ CellAt(canvas, MaxLine, 0) = Line_CORNER

\* C22: a line with mirror = true emits the horizontal segment first, covering
\* row start.y between the columns of start and end, then the vertical
\* segment, covering column end.x between the rows of start and end; the
\* corner glyph is at start, at the bend (end.x, start.y) and at end.  The
\* same line with mirror = false has the same corner glyphs at start and end
\* and differs only in where it bends.
C22_LineMirrored ==
    [][(ops' = <<"draw_line">> /\ shape'.line.mirror) =>
          LET a == shape'.line.start
              b == shape'.line.end
              bend == Pt(b.x, a.y)
              plain == edit(canvas, line_edits([shape'.line EXCEPT !.mirror = FALSE]))
          IN  /\ ~panicked'
              /\ Len(arg') = 2
              /\ arg'[1].dir = "Right"
              /\ Cells(arg'[1]) = {<<x, a.y>> : x \in Min(a.x, b.x)..Max(a.x, b.x)}
              /\ arg'[2].dir = "Down"
              /\ Cells(arg'[2]) = {<<b.x, y>> : y \in Min(a.y, b.y)..Max(a.y, b.y)}
              /\ ShowsLine(canvas', a, bend, b)
              /\ plain.ok
              /\ ShowsLine(plain.canvas, a, Pt(a.x, b.y), b)
              /\ (a.x # b.x /\ a.y # b.y) => plain.canvas.current # canvas'.current]_vars

\* A mirrored line drawn down and to the right, bending under the column of
\* its end on the row of its start.
C22_Witness ==
    /\ ops = <<"draw_line">> /\ ~panicked /\ shape.line.mirror
    /\ shape.line.start = Pt(0, 0) /\ shape.line.end = Pt(MaxLine, MaxLine)
    /\ CellAt(canvas, MaxLine, 0) = Line_CORNER
    /\ CellAt(canvas, 1, 0) = Line_HORIZONTAL
    /\ CellAt(canvas, MaxLine, 1) = Line_VERTICAL
    /\ CellAt(canvas, 0, 1) = EMPTY

\* The number of line breaks among the first k characters of a text.
RECURSIVE Breaks(_, _)
Breaks(t, k) ==
    IF k = 0 THEN 0 ELSE Breaks(t, k - 1) + (IF t[k] = NEWLINE THEN 1 ELSE 0)

\* The number of characters between the k-th character of a text and the line
\* break before it (or the beginning of the text).
RECURSIVE Column(_, _)
Column(t, k) ==
    IF k = 1 \/ t[k - 1] = NEWLINE THEN 0 ELSE Column(t, k - 1) + 1

\* C23: a text emits one Right edit per line, the i-th line (from 0) starting
\* at (start.x, start.y + i) and carrying that line's characters; drawn on a
\* canvas of any size, smaller than the text included, every character other
\* than a line break shows at column start.x plus its offset in its line, on
\* row start.y plus the number of line breaks before it, and no other cell
\* changes; an empty text emits no edits and leaves the grid unchanged.
C23_TextOneEditPerLine ==
    [][ops' = <<"draw_text">> =>
          LET t == shape'.text.text
              s == shape'.text.start
              at(k) == Pt(s.x + Column(t, k), s.y + Breaks(t, k))
              written == {at(k) : k \in {j \in 1..Len(t) : t[j] # NEWLINE}}
          IN  /\ ~panicked'
              /\ \A i \in 1..Len(arg') :
                    /\ arg'[i].dir = "Right"
                    /\ arg'[i].start = Pt(s.x, s.y + i - 1)
                    /\ \A j \in 1..Len(arg'[i].chars) : arg'[i].chars[j] # NEWLINE
              /\ Len(arg') =
                    IF t = <<>> THEN 0
                    ELSE Breaks(t, Len(t)) + (IF t[Len(t)] = NEWLINE THEN 0 ELSE 1)
              /\ \A k \in 1..Len(t) :
                    t[k] # NEWLINE => /\ InGrid(canvas', at(k).x, at(k).y)
                                      /\ CellAt(canvas', at(k).x, at(k).y) = t[k]
              /\ \A x \in 0..(MaxLine + MaxText + 1) : \A y \in 0..(MaxLine + MaxText + 1) :
                    Pt(x, y) \notin written => CellAt(canvas', x, y) = CellAt(canvas, x, y)
              /\ t = <<>> => arg' = <<>> /\ canvas'.current = canvas.current]_vars

\* Two lines of text drawn at (1, 1) on the empty canvas, which grows to hold
\* them.
C23_Witness ==
    /\ ops = <<"draw_text">> /\ ~panicked
    /\ shape.text.start = Pt(1, 1) /\ shape.text.text = <<"a", NEWLINE, "b">>
    /\ Len(canvas.undo) = 1 /\ canvas.undo[1].size_y = 0
    /\ CellAt(canvas, 1, 1) = "a" /\ CellAt(canvas, 1, 2) = "b"
    /\ size(canvas).y = 3

----------------------------------------------------------------------------
(* Points translated by signed vectors (vec::tests::test_uvec_translate)    *)
(* and the cursor moved by them (Action::MoveCursor { x, y }).              *)

IVecs == {[x |-> dx, y |-> dy] : dx \in (-MaxStep)..MaxStep, dy \in (-MaxStep)..MaxStep}

UVecs == {Pt(x, y) : x \in 0..(MaxStep + 1), y \in 0..(MaxStep + 1)}

InitVec ==
    /\ canvas = new(0, 0)
    /\ panicked = FALSE
    /\ ops = <<>>
    /\ arg = <<>>
    /\ expected = NoRect
    /\ origin = Pt(0, 0)
    /\ found = NoRect
    /\ doc = <<>>
    /\ app = App_default
    /\ keys = 0
    /\ anchors = NoAnchors
    /\ shape = NoShape
    /\ frame = NoFrame
    /\ binds = NoBinds

\* p.translated(d); the result is kept in origin.
Translate(p, d) ==
    /\ ops = <<>>
    /\ origin' = translated(p, d)
    /\ shape' = [kind |-> "Vec", from |-> p, by |-> d]
    /\ ops' = <<"translated">>
    /\ UNCHANGED <<canvas, panicked, arg, expected, found, doc, app, keys, anchors, frame, binds>>

\* Action::MoveCursor { x, y } handled in Normal mode.
MoveCursorBy(d) ==
    /\ Running
    /\ ops # <<"translated">>
    /\ LET r == action_move_cursor(app, canvas, d.x, d.y)
       IN  app' = r.app /\ canvas' = r.canvas /\ panicked' = ~r.ok
    /\ keys' = keys + 1
    /\ shape' = [kind |-> "Vec", from |-> app.cursor, by |-> d]
    /\ ops' = <<"move_cursor">>
    /\ UNCHANGED <<arg, expected, origin, found, doc, anchors, frame, binds>>

NextVec ==
    \/ \E p \in UVecs : \E d \in IVecs : Translate(p, d)
    \/ \E d \in IVecs : MoveCursorBy(d)

SpecVec == InitVec /\ [][NextVec]_vars

\* A coordinate moved by a signed distance, stopping at 0.
StopAtZero(a, d) == IF a + d < 0 THEN 0 ELSE a + d

\* C24: translating a point by a signed vector stops each coordinate at 0
\* independently of the other: the result is (max(0, x+dx), max(0, y+dy))
\* while that is within 16 bits; the cursor after every move-cursor action is
\* given by the same rule from the cursor before it, so that neither of its
\* coordinates is ever negative.
C24_TranslateSaturates ==
    [][/\ ops' = <<"translated">> =>
            /\ origin'.x = StopAtZero(shape'.from.x, shape'.by.x)
            /\ origin'.y = StopAtZero(shape'.from.y, shape'.by.y)
       /\ ops' = <<"move_cursor">> =>
            /\ shape'.from = app.cursor
            /\ app'.cursor.x = StopAtZero(app.cursor.x, shape'.by.x)
            /\ app'.cursor.y = StopAtZero(app.cursor.y, shape'.by.y)
            /\ app'.cursor.x >= 0 /\ app'.cursor.y >= 0
            /\ app'.cursor.x <= U16_MAX /\ app'.cursor.y <= U16_MAX]_vars

\* A point moved left past column 0 and up within the grid: x stops at 0, y
\* does not.
C24_Witness ==
    /\ ops = <<"translated">>
    /\ shape.from.x + shape.by.x < 0 /\ shape.by.y < 0
    /\ shape.from.y + shape.by.y > 0
    /\ origin = Pt(0, shape.from.y + shape.by.y)

\* C25: observing the canvas never changes it: rendering, with the preview of
\* the shape in progress in any mode, and the boundary scan of select-rect,
\* whether it finds a rectangle or not, leave the grid, its dimensions and the
\* undo and redo stacks as they were.
C25_ObservingKeepsCanvas ==
    [][ops' \in {<<"render">>, <<"select_rect">>} =>
          /\ ~panicked'
          /\ canvas'.current = canvas.current
          /\ size(canvas') = size(canvas)
          /\ canvas'.undo = canvas.undo
          /\ canvas'.redo = canvas.redo]_vars

\* A frame drawn in Rect mode that shows more than the committed grid holds.
C25_Witness ==
    /\ ops = <<"render">> /\ ~panicked /\ frame.some
    /\ app.mode.kind = "Rect"
    /\ app.mode.rect.top_left # app.mode.rect.bottom_right
    /\ frame.text # to_string(canvas)
    /\ canvas.undo # <<>>

----------------------------------------------------------------------------
(* Bindings built from a configuration, then looked up by key event         *)
(* (binds::tests::test_binds, for every configuration of the bounds).       *)

\* "s", "S", "S-s", "s-S", "s-X", "C-s", "a-S", "a-enter" and, with an unknown
\* modifier, "x-s".
KeyStrings ==
    {<<"s">>, <<"S">>, <<"S", "-", "s">>, <<"s", "-", "S">>, <<"s", "-", "X">>,
     <<"C", "-", "s">>, <<"a", "-", "S">>, <<"a", "-", "e", "n", "t", "e", "r">>,
     <<"x", "-", "s">>}

\* Binding::Single(Action::Save), Binding::Single(Action::Quit)
Bindings == {"Save", "Quit"}

\* The configurations: up to MaxBinds entries with distinct key strings, in
\* the order the HashMap yields them.
BindConfigs ==
    {c \in UNION {[1..n -> [key : KeyStrings, value : Bindings]] : n \in 0..MaxBinds} :
        \A i \in 1..Len(c) : \A j \in 1..Len(c) : i # j => c[i].key # c[j].key}

KeyEvents ==
    {KeyEvent(code, m) :
        code \in {Char("s"), Char("S"), Char("x"), Char("X"), Key("Enter")},
        m \in SUBSET {SHIFT, CONTROL, ALT}}

InitBinds ==
    /\ canvas = new(0, 0)
    /\ panicked = FALSE
    /\ ops = <<>>
    /\ arg = <<>>
    /\ expected = NoRect
    /\ origin = Pt(0, 0)
    /\ found = NoRect
    /\ doc = <<>>
    /\ app = App_default
    /\ keys = 0
    /\ anchors = NoAnchors
    /\ shape = NoShape
    /\ frame = NoFrame
    /\ binds = NoBinds

\* Binds::from_config(c)
FromConfig(c) ==
    /\ ~binds.loaded
    /\ binds' = [loaded |-> TRUE, config |-> c, ok |-> from_config(c).ok,
                 map |-> from_config(c).map, asked |-> FALSE,
                 ev |-> KeyEvent(Key("Null"), {}), got |-> NoBinding]
    /\ ops' = <<"from_config">>
    /\ UNCHANGED <<canvas, panicked, arg, expected, origin, found, doc, app, keys, anchors,
                   shape, frame>>

\* b.get(&ev), for one key event per configuration
Get(ev) ==
    /\ binds.loaded /\ binds.ok /\ ~binds.asked
    /\ binds' = [binds EXCEPT !.asked = TRUE, !.ev = ev, !.got = Binds_get(binds.map, ev)]
    /\ ops' = <<"get">>
    /\ UNCHANGED <<canvas, panicked, arg, expected, origin, found, doc, app, keys, anchors,
                   shape, frame>>

NextBinds ==
    \/ \E c \in BindConfigs : FromConfig(c)
    \/ \E ev \in KeyEvents : Get(ev)

SpecBinds == InitBinds /\ [][NextBinds]_vars

\* The letters the key strings and key events of the bounds use, as pairs of
\* lower and upper case.
Letters == {<<"s", "S">>, <<"x", "X">>}

\* A key string that declares shift plus the letter l: the bare uppercase
\* letter, or a shift prefix and the letter in either case.
SpellsShifted(k, l) ==
    \/ k = <<l[2]>>
    \/ Len(k) = 3 /\ k[1] \in {"s", "S"} /\ k[2] = "-" /\ k[3] \in {l[1], l[2]}

\* The three encodings of the key press shift plus the letter l.
Encodings(l) ==
    {KeyEvent(Char(l[2]), {}), KeyEvent(Char(l[1]), {SHIFT}), KeyEvent(Char(l[2]), {SHIFT})}

\* The modifiers other than shift that the prefixes of a key string name.
OtherMods(k) ==
    {CONTROL : i \in {j \in 1..(Len(k) - 1) : k[j] \in {"c", "C"} /\ k[j + 1] = "-"}}
        \cup {ALT : i \in {j \in 1..(Len(k) - 1) : k[j] \in {"a", "A"} /\ k[j + 1] = "-"}}

\* The configuration declares a binding for the letter l with exactly the
\* modifiers mods besides shift.
DeclaredWith(c, l, mods) ==
    \E i \in 1..Len(c) : Last(c[i].key) \in {l[1], l[2]} /\ OtherMods(c[i].key) = mods

\* C26 as stated: every binding declared for a shifted letter, as the bare
\* uppercase letter or as a shift prefix plus the letter in either case, is
\* what get returns for each of the three encodings of that key press; the
\* letter pressed with another modifier has no binding unless one is declared
\* with that modifier.
C26_ShiftedLetterBinding ==
    (binds.loaded /\ binds.ok /\ binds.asked) =>
        \A l \in Letters :
            /\ \A i \in 1..Len(binds.config) :
                  (SpellsShifted(binds.config[i].key, l) /\ binds.ev \in Encodings(l))
                      => binds.got = [some |-> TRUE, value |-> binds.config[i].value]
            /\ (/\ binds.ev.code \in {Char(l[1]), Char(l[2])}
                /\ binds.ev.modifiers \ {SHIFT} # {}
                /\ ~DeclaredWith(binds.config, l, binds.ev.modifiers \ {SHIFT}))
                  => binds.got = NoBinding

\* C26, amended: the binding declared for a shifted letter is what get
\* returns for each of the three encodings of that key press if the
\* configuration declares the shifted letter under one spelling only; if it
\* declares it under several, get returns the binding of one of them; the
\* letter pressed with another modifier has no binding unless one is declared
\* with that modifier.
C26_ShiftedLetterBindingOnce ==
    (binds.loaded /\ binds.ok /\ binds.asked) =>
        \A l \in Letters :
            LET spelled == {i \in 1..Len(binds.config) : SpellsShifted(binds.config[i].key, l)}
            IN  /\ (spelled # {} /\ binds.ev \in Encodings(l)) =>
                      /\ binds.got.some
                      /\ binds.got.value \in {binds.config[i].value : i \in spelled}
                /\ \A i \in spelled :
                      (Cardinality(spelled) = 1 /\ binds.ev \in Encodings(l))
                          => binds.got = [some |-> TRUE, value |-> binds.config[i].value]
                /\ (/\ binds.ev.code \in {Char(l[1]), Char(l[2])}
                    /\ binds.ev.modifiers \ {SHIFT} # {}
                    /\ ~DeclaredWith(binds.config, l, binds.ev.modifiers \ {SHIFT}))
                      => binds.got = NoBinding

\* A binding declared as "s-X" and another as "s", looked up with the
\* lowercase letter x and SHIFT.
C26_Witness ==
    /\ ops = <<"get">> /\ binds.ok /\ binds.asked
    /\ \E i \in 1..Len(binds.config) :
          /\ binds.config[i].key = <<"s", "-", "X">>
          /\ binds.got = [some |-> TRUE, value |-> binds.config[i].value]
    /\ \E i \in 1..Len(binds.config) : binds.config[i].key = <<"s">>
    /\ binds.ev = KeyEvent(Char("x"), {SHIFT})

\* C27: the inverse batch recorded by edit() holds no position outside the
\* grid as it was before the edit: where an edit writes beyond the pre-edit
\* width or height, only the overwritten cells that were inside the pre-edit
\* grid are recorded for undo.
C27_BatchInsidePriorGrid ==
    [][(IsEditCall(ops') /\ ~panicked' /\ Len(canvas'.undo) = Len(canvas.undo) + 1) =>
          LET b == Last(canvas'.undo)
          IN  \A i \in 1..Len(b.edits) : \A p \in Cells(b.edits[i]) :
                  InGrid(canvas, p[1], p[2])]_vars

----------------------------------------------------------------------------
(* One rectangle drawn on a blank canvas, one cell of the canvas then       *)
(* overwritten or not, and the canvas scanned once, from any point.         *)

\* The character written over one cell: a blank, which opens a gap in a
\* border, or a stray horizontal glyph.
DamageChars == {EMPTY, HORIZONTAL}

GridCells == {Pt(x, y) : x \in 0..(MaxRect + 1), y \in 0..(MaxRect + 1)}

\* canvas.edit of one character at one cell, once, after the rectangle is
\* drawn and before the first scan.
Damage(p, ch) ==
    /\ ~panicked
    /\ expected.some
    /\ Len(canvas.undo) = 1
    /\ LastOp(ops) = "edit"
    /\ LET res == edit(canvas, <<Right(p, <<ch>>)>>)
       IN  canvas' = res.canvas /\ panicked' = ~res.ok
    /\ ops' = Called("damage")
    /\ arg' = <<Right(p, <<ch>>)>>
    /\ UNCHANGED <<expected, origin, found, doc, app, keys, anchors, shape, frame, binds>>

NextScan ==
    \/ \E x1 \in 0..MaxRect : \E y1 \in 0..MaxRect :
        \E x2 \in (x1 + 1)..MaxRect : \E y2 \in (y1 + 1)..MaxRect :
            DrawRect(Rect(x1, y1, x2, y2))
    \/ \E p \in GridCells : \E ch \in DamageChars : Damage(p, ch)
    \/ \E p \in GridCells : LastOp(ops) # "rect_around" /\ RectAround(p)

SpecScan == InitRect /\ [][NextScan]_vars

\* All four borders of the rectangle r are on the canvas: the corner glyphs
\* at its corners, the horizontal glyph on its top and bottom rows and the
\* vertical glyph on its side columns between them.
BordersPresent(c, r) ==
    /\ r.top_left.x <= r.bottom_right.x /\ r.top_left.y <= r.bottom_right.y
    /\ \A x \in r.top_left.x..r.bottom_right.x : \A y \in r.top_left.y..r.bottom_right.y :
          Glyph(r, x, y) # "none" => CellAt(c, x, y) = Glyph(r, x, y)

\* C28: rect_around returns a rectangle only if all four of its borders are
\* on the canvas, with the corner glyphs at its corners; corners with an
\* incomplete border between them, or a stray glyph in a scan path, give no
\* match.
C28_MatchHasAllBorders ==
    (LastOp(ops) = "rect_around" /\ ~panicked /\ found.some) =>
        BordersPresent(canvas, [top_left |-> found.top_left, bottom_right |-> found.bottom_right])

\* The point p moved by the vector d, each coordinate stopping at 0.
Moved(p, d) == Pt(StopAtZero(p.x, d.x), StopAtZero(p.y, d.y))

\* C29: after every move-cursor action, in Rect mode the rectangle's far
\* corner is the new cursor and its first corner is unchanged; in Line mode
\* the line's end is the new cursor and its start and mirror flag are
\* unchanged; in SelectRect mode both corners of the dragged copy are moved by
\* the action's vector and the original rectangle and the selection-time
\* cursor are unchanged; in Text mode the buffer and its start are unchanged.
C29_MoveCursorUpdatesShape ==
    [][ops' = <<"move_cursor">> =>
          \E d \in Moves :
              /\ app'.cursor = Moved(app.cursor, d)
              /\ app'.mode.kind = app.mode.kind
              /\ app.mode.kind = "Rect" =>
                    /\ app'.mode.rect.bottom_right = app'.cursor
                    /\ app'.mode.rect.top_left = app.mode.rect.top_left
              /\ app.mode.kind = "Line" =>
                    /\ app'.mode.line.end = app'.cursor
                    /\ app'.mode.line.start = app.mode.line.start
                    /\ app'.mode.line.mirror = app.mode.line.mirror
              /\ app.mode.kind = "SelectRect" =>
                    /\ app'.mode.current.top_left = Moved(app.mode.current.top_left, d)
                    /\ app'.mode.current.bottom_right =
                           Moved(app.mode.current.bottom_right, d)
                    /\ app'.mode.original = app.mode.original
                    /\ app'.mode.cursor_start = app.mode.cursor_start
              /\ app.mode.kind = "Text" =>
                    /\ app'.mode.text.text = app.mode.text.text
                    /\ app'.mode.text.start = app.mode.text.start]_vars

\* A selected rectangle with an interior was dragged one column to the right:
\* the copy is one column right of the original, and the cursor one column
\* right of where the selection was made.
C29_Witness ==
    /\ ops = <<"move_cursor">>
    /\ ~panicked
    /\ app.mode.kind = "SelectRect"
    /\ app.mode.original.bottom_right.x > app.mode.original.top_left.x + 1
    /\ app.mode.current.top_left = Pt(app.mode.original.top_left.x + 1,
                                      app.mode.original.top_left.y)
    /\ app.mode.current.bottom_right = Pt(app.mode.original.bottom_right.x + 1,
                                          app.mode.original.bottom_right.y)
    /\ app.cursor = Pt(app.mode.cursor_start.x + 1, app.mode.cursor_start.y)

\* C30: in Text mode an unmodified character key appends the character to the
\* buffer and moves the cursor one column right, and no bound action runs;
\* backspace on a non-empty buffer removes the last character and moves the
\* cursor one column left; backspace on an empty buffer changes neither the
\* buffer nor the cursor; none of these keys changes the canvas or the mode.
C30_TextKeysEditBuffer ==
    [][/\ ops' = <<"key_char">> =>
            /\ \E ch \in TextChars : app'.mode.text.text = Append(app.mode.text.text, ch)
            /\ app'.cursor = Pt(app.cursor.x + 1, app.cursor.y)
       /\ ops' = <<"key_backspace">> =>
            IF app.mode.text.text = <<>>
            THEN app'.mode.text.text = <<>> /\ app'.cursor = app.cursor
            ELSE /\ app'.mode.text.text = Front(app.mode.text.text)
                 /\ app'.cursor = Pt(app.cursor.x - 1, app.cursor.y)
       /\ ops' \in {<<"key_char">>, <<"key_backspace">>} =>
            /\ ~panicked'
            /\ canvas' = canvas
            /\ app'.mode.kind = "Text"
            /\ app'.mode.text.start = app.mode.text.start
            /\ app'.exit = app.exit
            /\ app'.undo_cursor_pos = app.undo_cursor_pos
            /\ app'.redo_cursor_pos = app.redo_cursor_pos]_vars

----------------------------------------------------------------------------
(* Rectangles translated by signed vectors (rect::tests::test_rect_translated). *)

MovedRects ==
    {Rect(x1, y1, x2, y2) : x1 \in 0..MaxStep, y1 \in 0..MaxStep,
                            x2 \in 0..(MaxStep + 1), y2 \in 0..(MaxStep + 1)}

\* r.translated(d); the result is kept in found.
TranslateRect(r, d) ==
    /\ ops = <<>>
    /\ r.top_left.x <= r.bottom_right.x /\ r.top_left.y <= r.bottom_right.y
    /\ found' = [some |-> TRUE, top_left |-> rect_translated(r, d).top_left,
                 bottom_right |-> rect_translated(r, d).bottom_right]
    /\ shape' = [kind |-> "Rect", from |-> r, by |-> d]
    /\ ops' = <<"rect_translated">>
    /\ UNCHANGED <<canvas, panicked, arg, expected, origin, doc, app, keys, anchors, frame, binds>>

NextMove == \E r \in MovedRects : \E d \in IVecs : TranslateRect(r, d)

SpecMove == InitVec /\ [][NextMove]_vars

\* What is claimed of one axis of a translated rectangle, from a..b to a2..b2
\* by d: both ends are moved and stopped at 0, the extent is kept when no end
\* stops, and when the first end stops it is at 0.
AxisMoved(a, b, d, a2, b2) ==
    /\ a2 = StopAtZero(a, d) /\ b2 = StopAtZero(b, d)
    /\ (a + d >= 0 /\ b + d >= 0) => b2 - a2 = b - a
    /\ a + d < 0 => a2 = 0

----------------------------------------------------------------------------

\* C32: select-rect, in any mode, sets the mode to SelectRect with the
\* original and the dragged copy both rect_around(cursor) and the
\* selection-time cursor the current cursor, exactly when rect_around(cursor)
\* matches; when it does not match, the mode with its shape in progress, the
\* cursor and the canvas are unchanged.
C32_SelectRect ==
    [][ops' = <<"select_rect">> =>
          LET r == rect_around(canvas, app.cursor)
          IN  /\ ~panicked'
              /\ canvas' = canvas
              /\ app'.cursor = app.cursor
              /\ IF r.some
                 THEN /\ app'.mode.kind = "SelectRect"
                      /\ app'.mode.original.top_left = r.top_left
                      /\ app'.mode.original.bottom_right = r.bottom_right
                      /\ app'.mode.current = app'.mode.original
                      /\ app'.mode.cursor_start = app.cursor
                 ELSE app'.mode = app.mode]_vars

\* A rectangle with an interior was selected from inside it, with the cursor
\* away from the origin.
C32_Witness ==
    /\ ops = <<"select_rect">>
    /\ ~panicked
    /\ app.mode.kind = "SelectRect"
    /\ app.mode.cursor_start = app.cursor
    /\ app.cursor = Pt(1, 1)
    /\ app.mode.original = Rect(0, 0, 2, 2)
    /\ app.mode.current = app.mode.original

\* C33: the grid is rectangular in every reachable state: after any sequence
\* of edit, clear, undo and redo on a new canvas every row of the grid has the
\* same length, the width that size() reports.
C33_GridRectangular ==
    \A i \in 1..Len(canvas.current) : Len(canvas.current[i]) = size(canvas).x

\* A grid wider and higher than the canvas was created, with characters on
\* it, after an undo and a redo.
C33_Witness ==
    /\ ops = <<"undo", "redo">>
    /\ ~panicked
    /\ size(canvas).x > InitSize
    /\ size(canvas).y > InitSize
    /\ ~Blank(canvas)

\* C34: the cursor stacks are parallel to the canvas stacks: after any
\* sequence of actions the cursor undo stack is as deep as the canvas undo
\* stack and the cursor redo stack as deep as the canvas redo stack.
C34_CursorStacksParallel ==
    ~panicked =>
        /\ Len(app.undo_cursor_pos) = Len(canvas.undo)
        /\ Len(app.redo_cursor_pos) = Len(canvas.redo)

\* C35: in every reachable state, undo and redo while a shape is in progress
\* included, the far corner of the rectangle of Rect mode is the cursor and
\* the end of the line of Line mode is the cursor.
C35_ShapeEndAtCursor ==
    ~panicked =>
        /\ app.mode.kind = "Rect" => app.mode.rect.bottom_right = app.cursor
        /\ app.mode.kind = "Line" => app.mode.line.end = app.cursor

\* C36: in SelectRect mode, after any sequence of move-cursor actions, the
\* dragged copy has the width and height of the originally selected rectangle
\* and is displaced from it as the cursor is from the cursor of the time of
\* selection.
C36_DraggedCopyKeepsSize ==
    (~panicked /\ app.mode.kind = "SelectRect") =>
        LET o == app.mode.original
            c == app.mode.current
        IN  /\ c.bottom_right.x - c.top_left.x = o.bottom_right.x - o.top_left.x
            /\ c.bottom_right.y - c.top_left.y = o.bottom_right.y - o.top_left.y
            /\ c.top_left.x - o.top_left.x = app.cursor.x - app.mode.cursor_start.x
            /\ c.top_left.y - o.top_left.y = app.cursor.y - app.mode.cursor_start.y

\* Whether no edit of the sequence has a character.
WithoutChars(edits) == \A i \in 1..Len(edits) : edits[i].chars = <<>>

\* C37: every edit() call pushes exactly one batch on the undo stack, also for
\* an empty sequence and for a sequence of edits without characters; undoing
\* such a batch leaves the grid contents and dimensions as they are and moves
\* the one batch to the redo stack.
C37_OneBatchPerEdit ==
    [][/\ LastOp(ops') = "edit" =>
            /\ ~panicked'
            /\ Len(canvas'.undo) = Len(canvas.undo) + 1
            /\ SubSeq(canvas'.undo, 1, Len(canvas.undo)) = canvas.undo
       /\ (LastOp(ops') = "undo" /\ canvas.undo # <<>>
              /\ WithoutChars(Last(canvas.undo).edits)) =>
            /\ ~panicked'
            /\ canvas'.current = canvas.current
            /\ canvas'.undo = Front(canvas.undo)
            /\ Len(canvas'.redo) = Len(canvas.redo) + 1
            /\ WithoutChars(Last(canvas'.redo).edits)]_vars

\* C38: the committed canvas (grid, undo stack, redo stack) changes only on
\* exit-mode from Rect, Line, Text or SelectRect, add-line-point in Line mode,
\* delete in Normal or SelectRect mode, undo and redo; move-cursor, the three
\* draw actions, line-mirror, select-rect, save and quit leave it unchanged in
\* every mode, so that entering a mode while a shape is in progress does not
\* write the shape.
C38_CanvasChangesOnCommit ==
    [][/\ canvas' # canvas =>
            \/ ops' = <<"exit_mode">> /\ app.mode.kind \in {"Rect", "Line", "Text", "SelectRect"}
            \/ ops' = <<"line_add_point">> /\ app.mode.kind = "Line"
            \/ ops' = <<"delete">> /\ app.mode.kind \in {"Normal", "SelectRect"}
            \/ ops' \in {<<"undo">>, <<"redo">>}
       /\ ops' \in {<<"move_cursor">>, <<"enter_mode">>, <<"line_mirror">>,
                    <<"select_rect">>, <<"save">>, <<"quit">>} =>
            canvas' = canvas /\ ~panicked']_vars

\* draw-line was issued as the second key of a session, after draw-rect had
\* put a rectangle in progress and the cursor at (1,1): the mode is Line and
\* nothing was written.
C38_Witness ==
    /\ ops = <<"enter_mode">>
    /\ ~panicked
    /\ keys = 2
    /\ app.mode.kind = "Line"
    /\ app.mode.line.start = Pt(1, 1)
    /\ canvas.undo = <<>> /\ canvas.redo = <<>>

\* Whether the cursor is at the cell where Text::edits would show the next
\* character typed: the row of the text's start plus its line breaks, the
\* column of its start plus the characters after the last line break.
AtTextEnd(a) ==
    LET t == a.mode.text
    IN  /\ a.cursor.y = t.start.y + Breaks(t.text, Len(t.text))
        /\ a.cursor.x = t.start.x + Column(t.text, Len(t.text) + 1)

\* C39: in Text mode, after any sequence of character, backspace and newline
\* keys, with the text started in a column to the right of which the buffer's
\* length fits so that no move stops at 0, the cursor is at the cell where the
\* next character typed would show: it is there when the mode is entered, and
\* each of these keys takes it from there to there.
C39_CursorAtTextEnd ==
    [][/\ (ops' = <<"enter_mode">> /\ app'.mode.kind = "Text") => AtTextEnd(app')
       /\ (/\ ops' \in {<<"key_char">>, <<"key_backspace">>, <<"key_enter">>}
           /\ app.mode.text.start.x > Len(app.mode.text.text)
           /\ AtTextEnd(app)) =>
              AtTextEnd(app')]_vars

====
